---- MODULE Spec2Model ----
(***************************************************************************)
(* A model of the dvr record/replay engine (package dvr): mode resolution, *)
(* the RoundTripper facade, the recorder, the player and the default       *)
(* matcher.                                                                *)
(*                                                                         *)
(* Go values are represented as follows.  A pointer, interface, map or     *)
(* error that may be nil is an "option": <<>> for nil, <<v>> for a value.  *)
(* A byte slice is a sequence (nil and empty slices are both <<>>, which   *)
(* is how bytes.Compare and len treat them).  An http.Header is an option  *)
(* of a function from keys to sequences of values.                         *)
(***************************************************************************)
EXTENDS Integers, Sequences, FiniteSets, TLC

VARIABLES
    \* the four mode flags (package variables, dvr.go)
    record, replay, passThrough, DefaultReplay,
    \* the Obfuscator hook: None, or Some(credentials of a BasicAuthObfuscator)
    Obfuscator,
    \* the file system: fileName, and for each path the file's content
    fileName, fs,
    \* the recorder state of each roundTripper (r.isSetup, r.fd, r.writerCount)
    rt,
    \* the player state (package variables isSetup, requestList)
    isSetup, requestList,
    \* calls made so far, calls that reached the wrapped transport
    calls, realCalls,
    \* the last RoundTrip call: operation, request, transport outcome, result
    last,
    \* what each record() call returned / each replay() call returned
    recLog, repLog,
    \* history: the appends completed (file, entry name, exchange), and how
    \* often recordSetup has opened each path
    appended, opens,
    \* the matcher harness: arguments, the recorded side before the call, result
    mLeft, mRight, mPre, mRet, mCalls,
    \* the obfuscator harness: the credentials of the basicAuthObfuscator, the
    \* exchange it works on, the exchange and credentials of the last call
    oB, oRR, oPre, oCalls,
    \* goroutines calling RoundTrip concurrently: the position and the locals
    \* of each, the holders of r.writerLock, requestLock and of the mutex of
    \* the sync.Once isSetup (0: free), and how often replaySetup was run
    thr, writerLock, requestLock, onceLock, loads,
    \* cancellation: whether the wrapped transport has a CancelRequest method,
    \* how often that method was called, and the mode and effect of the last
    \* CancelRequest call on the roundTripper
    canCancel, cancelled, lastCancel,
    \* the reader harness: a bodyWriter, the bytes read from it so far, the
    \* result of the last Read, the number of Read calls
    bw, got, rd, nReads

flagVars == <<record, replay, passThrough, DefaultReplay>>
engineVars == <<Obfuscator, fileName, fs, rt, isSetup, requestList,
                calls, realCalls, last, recLog, repLog, appended, opens>>
matcherVars == <<mLeft, mRight, mPre, mRet, mCalls>>
obfVars == <<oB, oRR, oPre, oCalls>>
threadVars == <<thr, writerLock, requestLock, onceLock, loads>>
cancelVars == <<canCancel, cancelled, lastCancel>>
readVars == <<bw, got, rd, nReads>>
harnessVars == <<matcherVars, obfVars, threadVars, cancelVars, readVars>>
vars == <<flagVars, engineVars, harnessVars>>

-----------------------------------------------------------------------------
(* Bounds of the model.                                                    *)

MaxCalls == 2
MaxArchiveLen == 2
MaxMatcherCalls == 2
MaxObfCalls == 2
MaxSessionCalls == 3
NumThreads == 2
MaxThreadCalls == 2
MaxCancels == 2
MaxBody == 3
MaxReadBuf == 2
MaxReads == 4

-----------------------------------------------------------------------------
(* Options.                                                                *)

None == <<>>
Some(x) == <<x>>
IsNil(o) == Len(o) = 0
NotNil(o) == Len(o) > 0
Get(o) == o[1]

-----------------------------------------------------------------------------
(* net/url and net/http values.                                            *)

\* url.User(u) / url.UserPassword(u, p)
User(u) == [username |-> u, password |-> "", passwordSet |-> FALSE]
UserPassword(u, p) == [username |-> u, password |-> p, passwordSet |-> TRUE]

\* (*url.Userinfo).String(): "user" or "user:password" (the names used here
\* hold no character that String() would escape)
UserString(u) ==
    IF u.passwordSet THEN u.username \o ":" \o u.password ELSE u.username

MkURL(scheme, opaque, user, host, path, query, fragment) ==
    [Scheme |-> scheme, Opaque |-> opaque, User |-> user, Host |-> host,
     Path |-> path, RawQuery |-> query, Fragment |-> fragment]

MkRequest(method, url, header, trailer, body) ==
    [Method |-> method, URL |-> url, Header |-> header, Trailer |-> trailer,
     Body |-> body]

\* a body stream: the bytes it yields, then its terminal error (None: io.EOF)
Stream(data, err) == [data |-> data, err |-> err]

\* the RequestResponse struct; UserData is modelled by whether it is non-nil
RequestResponse(req, reqBody, reqErr, resp, respBody, respErr, err) ==
    [Request |-> req, RequestBody |-> reqBody, RequestBodyError |-> reqErr,
     Response |-> resp, ResponseBody |-> respBody,
     ResponseBodyError |-> respErr, Error |-> err, UserData |-> FALSE]

-----------------------------------------------------------------------------
(* The default matcher.                                                    *)

\* reflect.DeepEqual on two http.Header values: nil equals only nil, and two
\* maps are equal when they have the same keys and equal value lists
DeepEqual(a, b) == a = b

MatcherFalse(right) == [ret |-> "false", right |-> right]

\* a variant of matcher that decides the match but forgets to mark the
\* recorded exchange as seen
matcherNoMark(left, right) ==
    IF IsNil(right) \/ IsNil(left) THEN MatcherFalse(right)
    ELSE IF IsNil(Get(right).Request) \/ IsNil(Get(left).Request)
    THEN MatcherFalse(right)
    ELSE LET lreq == Get(Get(left).Request)
             rreq == Get(Get(right).Request)
         IN  IF IsNil(lreq.URL) \/ IsNil(rreq.URL) THEN MatcherFalse(right)
             ELSE IF /\ Get(lreq.URL) = Get(rreq.URL)
                     /\ Get(left).RequestBody = Get(right).RequestBody
                     /\ lreq.Header = rreq.Header
                     /\ lreq.Trailer = rreq.Trailer
                  THEN [ret |-> "true", right |-> right]
                  ELSE MatcherFalse(right)

\* a variant of matcher that does not compare the URL fragment
matcherNoFragment(left, right) ==
    IF IsNil(right) \/ IsNil(left) THEN MatcherFalse(right)
    ELSE IF Get(right).UserData THEN MatcherFalse(right)
    ELSE IF IsNil(Get(right).Request) \/ IsNil(Get(left).Request)
    THEN MatcherFalse(right)
    ELSE LET lreq == Get(Get(left).Request)
             rreq == Get(Get(right).Request)
         IN  IF IsNil(lreq.URL) \/ IsNil(rreq.URL) THEN MatcherFalse(right)
             ELSE IF /\ [Get(lreq.URL) EXCEPT !.Fragment = ""]
                          = [Get(rreq.URL) EXCEPT !.Fragment = ""]
                     /\ Get(left).RequestBody = Get(right).RequestBody
                     /\ lreq.Header = rreq.Header
                     /\ lreq.Trailer = rreq.Trailer
                  THEN [ret |-> "true",
                        right |-> Some([Get(right) EXCEPT !.UserData = TRUE])]
                  ELSE MatcherFalse(right)

\* a variant of the matcher that also compares the HTTP methods
matcherChecksMethod(left, right) ==
    IF IsNil(right) \/ IsNil(left) THEN MatcherFalse(right)
    ELSE IF Get(right).UserData THEN MatcherFalse(right)
    ELSE IF IsNil(Get(right).Request) \/ IsNil(Get(left).Request)
    THEN MatcherFalse(right)
    ELSE
    LET lreq == Get(Get(left).Request)
        rreq == Get(Get(right).Request)
    IN
    IF lreq.Method # rreq.Method THEN MatcherFalse(right)
    ELSE IF IsNil(lreq.URL) THEN MatcherFalse(right)
    ELSE IF IsNil(rreq.URL) THEN [ret |-> "panic", right |-> right]
    ELSE
    LET lurl == Get(lreq.URL)
        rurl == Get(rreq.URL)
    IN
    IF lurl.Scheme # rurl.Scheme THEN MatcherFalse(right)
    ELSE IF lurl.Opaque # rurl.Opaque THEN MatcherFalse(right)
    ELSE IF lurl.Host # rurl.Host THEN MatcherFalse(right)
    ELSE IF lurl.Path # rurl.Path THEN MatcherFalse(right)
    ELSE IF lurl.RawQuery # rurl.RawQuery THEN MatcherFalse(right)
    ELSE IF lurl.Fragment # rurl.Fragment THEN MatcherFalse(right)
    \* Case 1: URL.User
    ELSE IF NotNil(lurl.User) /\ IsNil(rurl.User) THEN MatcherFalse(right)
    ELSE IF IsNil(lurl.User) /\ NotNil(rurl.User) THEN MatcherFalse(right)
    ELSE IF /\ NotNil(lurl.User)
            /\ UserString(Get(lurl.User)) # UserString(Get(rurl.User))
    THEN MatcherFalse(right)
    \* Case 2: Request Body match.
    ELSE IF Get(left).RequestBody # Get(right).RequestBody
    THEN MatcherFalse(right)
    \* Case 3: Headers and Trailers match.
    ELSE IF ~DeepEqual(lreq.Header, rreq.Header) THEN MatcherFalse(right)
    ELSE IF ~DeepEqual(lreq.Trailer, rreq.Trailer) THEN MatcherFalse(right)
    ELSE [ret |-> "true",
          right |-> Some([Get(right) EXCEPT !.UserData = TRUE])]

\* a variant of the matcher that marks the exchange before it compares the
\* headers and the trailers
matcherMarksEarly(left, right) ==
    IF IsNil(right) \/ IsNil(left) THEN MatcherFalse(right)
    ELSE IF Get(right).UserData THEN MatcherFalse(right)
    ELSE IF IsNil(Get(right).Request) \/ IsNil(Get(left).Request)
    THEN MatcherFalse(right)
    ELSE
    LET lreq == Get(Get(left).Request)
        rreq == Get(Get(right).Request)
    IN
    \* Case 1: URL elements match.
    IF IsNil(lreq.URL) THEN MatcherFalse(right)
    ELSE IF IsNil(rreq.URL) THEN [ret |-> "panic", right |-> right]
    ELSE
    LET lurl == Get(lreq.URL)
        rurl == Get(rreq.URL)
    IN
    IF lurl.Scheme # rurl.Scheme THEN MatcherFalse(right)
    ELSE IF lurl.Opaque # rurl.Opaque THEN MatcherFalse(right)
    ELSE IF lurl.Host # rurl.Host THEN MatcherFalse(right)
    ELSE IF lurl.Path # rurl.Path THEN MatcherFalse(right)
    ELSE IF lurl.RawQuery # rurl.RawQuery THEN MatcherFalse(right)
    ELSE IF lurl.Fragment # rurl.Fragment THEN MatcherFalse(right)
    \* Case 1: URL.User
    ELSE IF NotNil(lurl.User) /\ IsNil(rurl.User) THEN MatcherFalse(right)
    ELSE IF IsNil(lurl.User) /\ NotNil(rurl.User) THEN MatcherFalse(right)
    ELSE IF /\ NotNil(lurl.User)
            /\ UserString(Get(lurl.User)) # UserString(Get(rurl.User))
    THEN MatcherFalse(right)
    \* Case 2: Request Body match.
    ELSE IF Get(left).RequestBody # Get(right).RequestBody
    THEN MatcherFalse(right)
    \* Case 3: Headers and Trailers match.
    ELSE IF ~DeepEqual(lreq.Header, rreq.Header)
    THEN MatcherFalse(Some([Get(right) EXCEPT !.UserData = TRUE]))
    ELSE IF ~DeepEqual(lreq.Trailer, rreq.Trailer)
    THEN MatcherFalse(Some([Get(right) EXCEPT !.UserData = TRUE]))
    ELSE [ret |-> "true",
          right |-> Some([Get(right) EXCEPT !.UserData = TRUE])]

\* matcher(left, right): the result ("true", "false", or "panic" for the nil
\* dereference of a recorded request without URL) and the recorded side after
\* the call
matcher(left, right) ==
    IF IsNil(right) \/ IsNil(left) THEN MatcherFalse(right)
    ELSE IF Get(right).UserData THEN MatcherFalse(right)
    ELSE IF IsNil(Get(right).Request) \/ IsNil(Get(left).Request)
    THEN MatcherFalse(right)
    ELSE
    LET lreq == Get(Get(left).Request)
        rreq == Get(Get(right).Request)
    IN
    \* Case 1: URL elements match.
    IF IsNil(lreq.URL) THEN MatcherFalse(right)
    ELSE IF IsNil(rreq.URL) THEN [ret |-> "panic", right |-> right]
    ELSE
    LET lurl == Get(lreq.URL)
        rurl == Get(rreq.URL)
    IN
    IF lurl.Scheme # rurl.Scheme THEN MatcherFalse(right)
    ELSE IF lurl.Opaque # rurl.Opaque THEN MatcherFalse(right)
    ELSE IF lurl.Host # rurl.Host THEN MatcherFalse(right)
    ELSE IF lurl.Path # rurl.Path THEN MatcherFalse(right)
    ELSE IF lurl.RawQuery # rurl.RawQuery THEN MatcherFalse(right)
    ELSE IF lurl.Fragment # rurl.Fragment THEN MatcherFalse(right)
    \* Case 1: URL.User
    ELSE IF NotNil(lurl.User) /\ IsNil(rurl.User) THEN MatcherFalse(right)
    ELSE IF IsNil(lurl.User) /\ NotNil(rurl.User) THEN MatcherFalse(right)
    ELSE IF /\ NotNil(lurl.User)
            /\ UserString(Get(lurl.User)) # UserString(Get(rurl.User))
    THEN MatcherFalse(right)
    \* Case 2: Request Body match.
    ELSE IF Get(left).RequestBody # Get(right).RequestBody
    THEN MatcherFalse(right)
    \* Case 3: Headers and Trailers match.
    ELSE IF ~DeepEqual(lreq.Header, rreq.Header) THEN MatcherFalse(right)
    ELSE IF ~DeepEqual(lreq.Trailer, rreq.Trailer) THEN MatcherFalse(right)
    ELSE [ret |-> "true",
          right |-> Some([Get(right) EXCEPT !.UserData = TRUE])]

-----------------------------------------------------------------------------
(* Mode resolution.                                                        *)

\* a variant of mode in which -dvr.passthrough takes precedence over
\* -dvr.replay
modePassFirst ==
    IF record THEN <<TRUE, FALSE>>
    ELSE IF passThrough THEN <<FALSE, FALSE>>
    ELSE IF replay THEN <<FALSE, TRUE>>
    ELSE IF DefaultReplay THEN <<FALSE, TRUE>>
    ELSE <<FALSE, FALSE>>

\* mode(): the pair (rec, rep) of the switch over the four flags
mode ==
    IF record THEN <<TRUE, FALSE>>
    ELSE IF replay THEN <<FALSE, TRUE>>
    ELSE IF passThrough THEN <<FALSE, FALSE>>
    ELSE IF DefaultReplay THEN <<FALSE, TRUE>>
    ELSE <<FALSE, FALSE>>

IsRecording == mode[1]

\* a variant of IsPassingThrough that looks at the recording flag only
IsPassingThroughNotRec == ~mode[1]

IsPassingThrough == ~mode[1] /\ ~mode[2]

IsReplay == mode[2]

-----------------------------------------------------------------------------
(* Body streams.                                                           *)

\* the size of the buffer the caller reads bodies with
ReadBuf == 2

\* a live body: yields data, then err (None: io.EOF)
LiveBody(data, err) == [kind |-> "live", offset |-> 0, data |-> data, err |-> err]

\* &bodyWriter{offset: 0, data: data, err: err}
bodyWriter(data, err) ==
    [kind |-> "bodyWriter", offset |-> 0, data |-> data, err |-> err]

Min(a, b) == IF a < b THEN a ELSE b

\* a variant of Read that reports the captured error as end-of-stream
ReadDropsErr(b, n) ==
    IF b.offset >= Len(b.data)
    THEN [n |-> 0, err |-> Some("EOF"), bytes |-> <<>>, b |-> b]
    ELSE LET k == Min(n, Len(b.data) - b.offset)
         IN  [n |-> k, err |-> None,
              bytes |-> SubSeq(b.data, b.offset + 1, b.offset + k),
              b |-> [b EXCEPT !.offset = b.offset + k]]

\* (*bodyWriter).Read with a buffer of n bytes: the count, the error, the
\* bytes copied and the writer afterwards
Read(b, n) ==
    IF b.offset >= Len(b.data)
    THEN [n |-> 0,
          err |-> IF IsNil(b.err) THEN Some("EOF") ELSE b.err,
          bytes |-> <<>>, b |-> b]
    ELSE LET k == Min(n, Len(b.data) - b.offset)
         IN  [n |-> k, err |-> None,
              bytes |-> SubSeq(b.data, b.offset + 1, b.offset + k),
              b |-> [b EXCEPT !.offset = b.offset + k]]

\* reading a body to its end with buffers of ReadBuf bytes: the bytes read
\* and the error that ended the reading ("EOF" for a clean end)
RECURSIVE ReadToEnd(_, _)
ReadToEnd(b, acc) ==
    LET r == Read(b, ReadBuf)
    IN  IF NotNil(r.err) THEN [data |-> acc, err |-> Get(r.err)]
        ELSE ReadToEnd(r.b, acc \o r.bytes)

\* what a reader of the body observes: its bytes and its terminal error
Observe(body) ==
    IF body.kind = "live"
    THEN [data |-> body.data,
          err |-> IF IsNil(body.err) THEN "EOF" ELSE Get(body.err)]
    ELSE ReadToEnd(body, <<>>)

\* io.Copy(buffer, body): the buffer's bytes and the error returned, which
\* is nil when the body ended with io.EOF
Drain(body) ==
    LET o == Observe(body)
    IN  [data |-> o.data, err |-> IF o.err = "EOF" THEN None ELSE Some(o.err)]

-----------------------------------------------------------------------------
(* The gob form of an exchange.                                            *)

\* newGobRequest(req): the request descriptor, without body
newGobRequest(req) ==
    [Method |-> req.Method, URL |-> req.URL, Header |-> req.Header,
     Trailer |-> req.Trailer, Body |-> <<>>, Error |-> None]

\* newGobResponse(resp): nil for a nil response
newGobResponse(resp) ==
    IF IsNil(resp) THEN None
    ELSE Some([StatusCode |-> Get(resp).StatusCode,
               Header |-> Get(resp).Header, Body |-> <<>>, Error |-> None])

\* (*gobQuery).RequestResponse()
gobRequestResponse(q) ==
    RequestResponse(
        Some(MkRequest(q.Request.Method, q.Request.URL, q.Request.Header,
                       q.Request.Trailer, None)),
        q.Request.Body, q.Request.Error,
        IF IsNil(q.Response) THEN None
        ELSE Some([StatusCode |-> Get(q.Response).StatusCode,
                   Header |-> Get(q.Response).Header, Body |-> None]),
        IF IsNil(q.Response) THEN <<>> ELSE Get(q.Response).Body,
        IF IsNil(q.Response) THEN None ELSE Get(q.Response).Error,
        q.Error)

\* the length of the gob encoding of q, up to a constant
gobLen(q) ==
    1 + Len(q.Request.Body)
      + (IF IsNil(q.Response) THEN 0 ELSE 1 + Len(Get(q.Response).Body))

-----------------------------------------------------------------------------
(* The basic-auth obfuscator.                                              *)

\* base64.StdEncoding.EncodeToString on the credentials used here
Base64(s) ==
    CASE s = "user1:pass1" -> "dXNlcjE6cGFzczE="
      [] s = "user1:" -> "dXNlcjE6"
      [] s = "user2:pass2" -> "dXNlcjI6cGFzczI="
      [] s = "user2:" -> "dXNlcjI6"
      [] OTHER -> "base64(" \o s \o ")"

\* http.Header.Get(key) for a canonical key: the first value, or ""
HeaderGet(h, key) ==
    IF IsNil(h) THEN ""
    ELSE IF key \in DOMAIN Get(h) /\ Len(Get(h)[key]) > 0 THEN Get(h)[key][1]
    ELSE ""

\* http.Header.Del(key) followed by http.Header.Set(key, value)
HeaderSet(h, key, value) ==
    Some([k \in DOMAIN Get(h) \cup {key} |->
            IF k = key THEN <<value>> ELSE Get(h)[k]])

\* a variant of the obfuscator that sets the user-info of every URL
basicAuthObfuscatorAnyURL(b, rr) ==
    LET req == Get(rr.Request)
        value == "Basic " \o Base64(b.username \o ":" \o b.password)
        header == IF HeaderGet(req.Header, "Authorization") # ""
                  THEN HeaderSet(req.Header, "Authorization", value)
                  ELSE req.Header
        url == Get(req.URL)
        user == IF b.password = ""
                THEN Some(User(b.username))
                ELSE Some(UserPassword(b.username, b.password))
    IN  [rr EXCEPT !.Request =
            Some([req EXCEPT !.Header = header,
                             !.URL = Some([url EXCEPT !.User = user])])]

\* (*basicAuthObfuscator).Obfuscator(rr) for credentials b, on an exchange
\* whose request has a URL
basicAuthObfuscator(b, rr) ==
    LET req == Get(rr.Request)
        value == "Basic " \o Base64(b.username \o ":" \o b.password)
        header == IF HeaderGet(req.Header, "Authorization") # ""
                  THEN HeaderSet(req.Header, "Authorization", value)
                  ELSE req.Header
        url == Get(req.URL)
        user == IF NotNil(url.User)
                THEN IF b.password = ""
                     THEN Some(User(b.username))
                     ELSE Some(UserPassword(b.username, b.password))
                ELSE url.User
    IN  [rr EXCEPT !.Request =
            Some([req EXCEPT !.Header = header,
                             !.URL = Some([url EXCEPT !.User = user])])]

-----------------------------------------------------------------------------
(* The archive file.  A file is a sequence of tokens: the 4-byte version   *)
(* word, a gzip stream holding a tar stream, or the blocks of a tar stream *)
(* written directly (a header block, then the payload of the entry).       *)

VersionTok(v) == [t |-> "version", v |-> v]
GzipTok(tar) == [t |-> "gzip", tar |-> tar]
HdrTok(name, size) == [t |-> "hdr", Name |-> name, Size |-> size]
DataTok(q) == [t |-> "data", q |-> q]

\* the first four bytes of a file starting with tok, read as a big-endian
\* uint32: the version word itself, the gzip magic 1f 8b 08 00, or the first
\* bytes of a tar header, which are the entry's name in decimal text
Word(tok) ==
    CASE tok.t = "version" -> tok.v
      [] tok.t = "gzip" -> 529205248
      [] tok.t = "hdr" ->
           IF tok.Name < 10 THEN (48 + tok.Name) * 16777216
           ELSE (48 + (tok.Name \div 10)) * 16777216
                + (48 + (tok.Name % 10)) * 65536
      [] OTHER -> 0

\* panic(&dvrFailure{Err: err}), panic(err) and a run-time panic
dvrFailure(msg) == [kind |-> "panic", type |-> "*dvrFailure", msg |-> msg]
plainPanic(msg) == [kind |-> "panic", type |-> "error", msg |-> msg]
runtimePanic == [kind |-> "panic", type |-> "runtime.Error",
                 msg |-> "nil pointer dereference"]

\* the loop of replaySetup over the tar stream: the list read, and the
\* failure that ended the loop, if any
RECURSIVE readEntries(_, _)
readEntries(tar, acc) ==
    IF tar = <<>> THEN [list |-> acc, panic |-> None]
    ELSE IF Head(tar).t # "hdr"
    THEN [list |-> acc, panic |-> Some(dvrFailure("tar: invalid header"))]
    ELSE IF Len(tar) < 2 \/ tar[2].t # "data"
    THEN [list |-> acc, panic |-> Some(dvrFailure("unexpected EOF"))]
    ELSE readEntries(SubSeq(tar, 3, Len(tar)),
                     Append(acc, gobRequestResponse(tar[2].q)))

\* a variant of replaySetup that does not check the version word
replaySetupNoVersion ==
    LET file == fs[fileName]
    IN  IF IsNil(file) \/ Len(Get(file)) < 2 \/ Get(file)[2].t # "gzip"
        THEN [list |-> requestList, panic |-> Some(dvrFailure("open"))]
        ELSE readEntries(Get(file)[2].tar, <<>>)

\* replaySetup(): the value of requestList when it ends, and its panic
replaySetup ==
    LET file == fs[fileName]
    IN  IF IsNil(file)
        THEN [list |-> requestList,
              panic |-> Some(dvrFailure("no such file or directory"))]
        ELSE IF Get(file) = <<>>
        THEN [list |-> requestList, panic |-> Some(dvrFailure("EOF"))]
        ELSE IF Word(Get(file)[1]) # 1
        THEN [list |-> requestList,
              panic |-> Some(plainPanic("Unknown version"))]
        ELSE IF Len(Get(file)) < 2
        THEN [list |-> requestList, panic |-> Some(dvrFailure("EOF"))]
        ELSE IF Get(file)[2].t # "gzip"
        THEN [list |-> requestList,
              panic |-> Some(dvrFailure("gzip: invalid header"))]
        ELSE readEntries(Get(file)[2].tar, <<>>)

-----------------------------------------------------------------------------
(* The player.                                                             *)

\* textproto.CanonicalMIMEHeaderKey on the keys used here
Canon(k) == IF k = "x-test-header" THEN "X-Test-Header" ELSE k

\* the copy of a response header made by replay: Header.Add(k, v) for every
\* value v of every key k
copyHeader(h) ==
    LET m == IF IsNil(h) THEN <<>> ELSE Get(h)
        keys == {k \in DOMAIN m : Len(m[k]) > 0}
    IN  Some([c \in {Canon(k) : k \in keys} |->
                m[CHOOSE k \in keys : Canon(k) = c]])

\* the copy of a list entry that replay hands to the matcher; rr.Response
\* is not nil
copyrr(rr) ==
    [rr EXCEPT !.Response =
        Some([Get(rr.Response) EXCEPT
                 !.Header = copyHeader(Get(rr.Response).Header)])]

\* the loop of replay over requestList from entry i on: the entry matched
\* (rrMatch), no match (nil), or the nil dereference of an entry that has
\* no response; list is requestList after the loop
RECURSIVE scan(_, _, _)
scan(rrSource, list, i) ==
    IF i > Len(list) THEN [kind |-> "nil", list |-> list]
    ELSE IF IsNil(list[i].Response)
    THEN [kind |-> "nilderef", list |-> list]
    ELSE LET m == matcher(Some(rrSource), Some(copyrr(list[i])))
         IN  IF m.ret = "true"
             THEN [kind |-> "match", rrMatch |-> Get(m.right), list |-> list]
             ELSE IF m.ret = "panic"
             THEN [kind |-> "nilderef", list |-> list]
             ELSE scan(rrSource, list, i + 1)

\* what replay returns for a matched entry
replayResult(rrMatch) ==
    IF IsNil(rrMatch.Response)
    THEN [kind |-> "return", resp |-> None, err |-> rrMatch.Error]
    ELSE [kind |-> "return",
          resp |-> Some([Get(rrMatch.Response) EXCEPT
                    !.Body = Some(bodyWriter(rrMatch.ResponseBody,
                                             rrMatch.ResponseBodyError))]),
          err |-> rrMatch.Error]

\* the request object of the caller when replay returns: its body has been
\* read to the end by io.Copy
replayAfter(req) ==
    IF NotNil(req.Body)
    THEN [req EXCEPT !.Body =
            Some([Get(req.Body) EXCEPT !.offset = Len(Get(req.Body).data)])]
    ELSE req

\* a variant of replay that takes the exchanges of the matched request out
\* of requestList
replayCallRemoves(req, list) ==
    LET body == IF NotNil(req.Body) THEN Drain(Get(req.Body))
                ELSE [data |-> <<>>, err |-> None]
        rrSource == RequestResponse(Some(req), body.data, body.err,
                                    None, <<>>, None, None)
        s == scan(rrSource, list, 1)
    IN  CASE s.kind = "nilderef" -> [ret |-> runtimePanic, list |-> s.list]
          [] s.kind = "nil" ->
               [ret |-> dvrFailure("Matcher didn't match any execeted queries."),
                list |-> s.list]
          [] s.kind = "match" ->
               [ret |-> replayResult(s.rrMatch),
                list |-> SelectSeq(s.list,
                            LAMBDA e : e.Request # s.rrMatch.Request)]

\* the body of replay after the setup: the result, and requestList after
replayCall(req, list) ==
    LET body == IF NotNil(req.Body) THEN Drain(Get(req.Body))
                ELSE [data |-> <<>>, err |-> None]
        rrSource == RequestResponse(Some(req), body.data, body.err,
                                    None, <<>>, None, None)
        s == scan(rrSource, list, 1)
    IN  CASE s.kind = "nilderef" -> [ret |-> runtimePanic, list |-> s.list]
          [] s.kind = "nil" ->
               [ret |-> dvrFailure("Matcher didn't match any execeted queries."),
                list |-> s.list]
          [] s.kind = "match" ->
               [ret |-> replayResult(s.rrMatch), list |-> s.list]

-----------------------------------------------------------------------------
(* The recorder.                                                           *)

\* new(roundTripper): the recorder fields of a roundTripper start zero
newRoundTripper == [isSetup |-> FALSE, fd |-> None, writerCount |-> 0]

\* a variant of the substitution that feeds the new body from the buffer
\* only, without the error the drain captured
recordSentNoErr(req) ==
    IF NotNil(req.Body)
    THEN LET b == Drain(Get(req.Body))
         IN  [req EXCEPT !.Body = Some(bodyWriter(b.data, None))]
    ELSE req

\* the request handed to the wrapped transport: the caller's request with
\* its body replaced by a bodyWriter over the drained bytes
recordSent(req) ==
    IF NotNil(req.Body)
    THEN LET b == Drain(Get(req.Body))
         IN  [req EXCEPT !.Body = Some(bodyWriter(b.data, b.err))]
    ELSE req

\* a variant of recordQuery that stores an empty response descriptor when
\* the transport returned no response
recordQueryEmptyResponse(req, out) ==
    LET reqBody == IF NotNil(req.Body) THEN Drain(Get(req.Body))
                   ELSE [data |-> <<>>, err |-> None]
        drained == IF NotNil(out.resp) /\ NotNil(Get(out.resp).Body)
                   THEN Drain(Get(Get(out.resp).Body))
                   ELSE [data |-> <<>>, err |-> None]
    IN  [Request |-> [newGobRequest(req) EXCEPT !.Body = reqBody.data,
                                                !.Error = reqBody.err],
         Response |->
            IF IsNil(out.resp)
            THEN Some([StatusCode |-> 0, Header |-> None, Body |-> <<>>,
                       Error |-> None])
            ELSE Some([Get(newGobResponse(out.resp)) EXCEPT
                          !.Body = drained.data, !.Error = drained.err]),
         Error |-> out.err]

\* a variant of recordQuery that does not keep the error of the transport
recordQueryNoError(req, out) ==
    LET reqBody == IF NotNil(req.Body) THEN Drain(Get(req.Body))
                   ELSE [data |-> <<>>, err |-> None]
        drained == IF NotNil(out.resp) /\ NotNil(Get(out.resp).Body)
                   THEN Drain(Get(Get(out.resp).Body))
                   ELSE [data |-> <<>>, err |-> None]
    IN  [Request |-> [newGobRequest(req) EXCEPT !.Body = reqBody.data,
                                                !.Error = reqBody.err],
         Response |->
            IF IsNil(out.resp) THEN None
            ELSE Some([Get(newGobResponse(out.resp)) EXCEPT
                          !.Body = drained.data, !.Error = drained.err]),
         Error |-> None]

\* the gobQuery q built by record from the request and from what the
\* wrapped transport returned
recordQuery(req, out) ==
    LET reqBody == IF NotNil(req.Body) THEN Drain(Get(req.Body))
                   ELSE [data |-> <<>>, err |-> None]
        drained == IF NotNil(out.resp) /\ NotNil(Get(out.resp).Body)
                   THEN Drain(Get(Get(out.resp).Body))
                   ELSE [data |-> <<>>, err |-> None]
    IN  [Request |-> [newGobRequest(req) EXCEPT !.Body = reqBody.data,
                                                !.Error = reqBody.err],
         Response |->
            IF IsNil(out.resp) THEN None
            ELSE Some([Get(newGobResponse(out.resp)) EXCEPT
                          !.Body = drained.data, !.Error = drained.err]),
         Error |-> out.err]

\* a variant of recordResult that hands the caller a response without the
\* bytes of the body
recordResultEmptyBody(out) ==
    [kind |-> "return",
     resp |-> IF NotNil(out.resp) /\ NotNil(Get(out.resp).Body)
              THEN Some([Get(out.resp) EXCEPT !.Body =
                      Some(bodyWriter(<<>>,
                                      Drain(Get(Get(out.resp).Body)).err))])
              ELSE out.resp,
     err |-> out.err]

\* what record returns: the transport's response, its body replaced by a
\* bodyWriter over the drained bytes, and the transport's error
recordResult(out) ==
    [kind |-> "return",
     resp |-> IF NotNil(out.resp) /\ NotNil(Get(out.resp).Body)
              THEN LET d == Drain(Get(Get(out.resp).Body))
                   IN  Some([Get(out.resp) EXCEPT !.Body =
                               Some(bodyWriter(d.data, d.err))])
              ELSE out.resp,
     err |-> out.err]

\* a variant of recordAfter in which the Obfuscator works on the request
\* object of the caller
recordAfterHooked(req) ==
    IF IsNil(Obfuscator) THEN recordSent(req)
    ELSE Get(basicAuthObfuscator(Get(Obfuscator),
               RequestResponse(Some(recordSent(req)), <<>>, None,
                               None, <<>>, None, None)).Request)

\* the request object of the caller when record returns: its body was
\* replaced before the transport was called; the Obfuscator was given rr,
\* decoded from the encoded exchange, and not this object
recordAfter(req) == recordSent(req)

\* the gobQuery after the Obfuscator, if any, has been applied to its copy
obfuscate(q) ==
    IF IsNil(Obfuscator) THEN q
    ELSE LET rr == basicAuthObfuscator(Get(Obfuscator), gobRequestResponse(q))
             resp == newGobResponse(rr.Response)
         IN  [Request |-> [newGobRequest(Get(rr.Request)) EXCEPT
                              !.Body = rr.RequestBody,
                              !.Error = rr.RequestBodyError],
              Response |->
                 IF IsNil(resp) THEN None
                 ELSE Some([Get(resp) EXCEPT !.Body = rr.ResponseBody,
                                             !.Error = rr.ResponseBodyError]),
              Error |-> q.Error]

-----------------------------------------------------------------------------
(* The engine: requests, transport outcomes, archives and the calls.       *)

Files == {"testdata/archive.dvr", "tmp/archive2.dvr"}

ReqURL(path, user) == MkURL("http", "", user, "127.0.0.1:80", path, "", "")

Req201 ==
    MkRequest("GET", Some(ReqURL("/201", None)),
              Some("X-Client-Header" :> <<"test">>), None,
              Some(LiveBody(<<1>>, None)))

ReqError ==
    MkRequest("GET", Some(ReqURL("/error", None)),
              Some("X-Client-Header" :> <<"test">>), None,
              Some(LiveBody(<<1>>, None)))

ReqAuth ==
    MkRequest("GET",
              Some(ReqURL("/201", Some(UserPassword("user1", "pass1")))),
              Some("Authorization" :> <<"Basic dXNlcjE6cGFzczE=">>), None,
              Some(LiveBody(<<1>>, None)))

\* the request of ReqAuth with the credentials user2:pass2
ReqAuth2 ==
    MkRequest("GET",
              Some(ReqURL("/201", Some(UserPassword("user2", "pass2")))),
              Some("Authorization" :> <<"Basic dXNlcjI6cGFzczI=">>), None,
              Some(LiveBody(<<1>>, None)))

LiveRequests == {Req201, ReqError, ReqAuth, ReqAuth2}

\* what the wrapped transport may return
Resp201 ==
    [resp |-> Some([StatusCode |-> 201,
                    Header |-> Some("Date" :> <<"Mon, 2 Mar 2001 01:02:03 GMT">>),
                    Body |-> Some(LiveBody(<<>>, None))]),
     err |-> None]

RespBody ==
    [resp |-> Some([StatusCode |-> 200,
                    Header |-> Some("X-Test-Header" :> <<"X Y Z">>),
                    Body |-> Some(LiveBody(<<5, 6, 7>>, Some("unexpected EOF")))]),
     err |-> None]

RespErr == [resp |-> None, err |-> Some("EOF")]

Outcomes == {Resp201, RespBody, RespErr}

\* the exchanges found in archives recorded before the process started
ArchivedQueries ==
    {recordQuery(Req201, Resp201), recordQuery(Req201, RespBody),
     recordQuery(ReqError, RespErr)}

RECURSIVE tarStream(_, _)
tarStream(qs, i) ==
    IF i > Len(qs) THEN <<>>
    ELSE <<HdrTok(i - 1, gobLen(qs[i])), DataTok(qs[i])>> \o tarStream(qs, i + 1)

\* an archive in the format replaySetup reads
Archive(version, qs) == Some(<<VersionTok(version), GzipTok(tarStream(qs, 1))>>)

\* an archive cut short after its first entry
Truncated ==
    Some(<<VersionTok(1),
           GzipTok(tarStream(<<recordQuery(Req201, Resp201)>>, 1)
                   \o <<HdrTok(1, gobLen(recordQuery(Req201, Resp201)))>>)>>)

InitialFiles ==
    {None, Archive(2, <<>>), Truncated}
    \cup {Archive(1, qs) :
            qs \in UNION {[1..n -> ArchivedQueries] : n \in 0..MaxArchiveLen}}

NoCall == [op |-> "none", req |-> None, sent |-> None, out |-> None,
           ret |-> None, after |-> None]

\* record(req), where the wrapped transport returns out
recordCall(req, out) ==
    LET fd == IF rt.isSetup THEN rt.fd ELSE Some(fileName)
        opened == IF rt.isSetup THEN fs
                  ELSE [fs EXCEPT ![fileName] = Some(<<>>)]
        q == obfuscate(recordQuery(req, out))
        header == HdrTok(rt.writerCount, gobLen(q))
        ret == recordResult(out)
    IN  /\ fs' = [opened EXCEPT ![Get(fd)] =
                    Some(Get(opened[Get(fd)]) \o <<header, DataTok(q)>>)]
        /\ rt' = [isSetup |-> TRUE, fd |-> fd,
                  writerCount |-> rt.writerCount + 1]
        /\ realCalls' = realCalls + 1
        /\ last' = [op |-> "record", req |-> Some(req),
                    sent |-> Some(recordSent(req)), out |-> Some(out),
                    ret |-> Some(ret), after |-> Some(recordAfter(req))]
        /\ recLog' = Append(IF rt.isSetup THEN recLog ELSE <<>>,
                            [req |-> req, ret |-> ret, file |-> Get(fd)])
        /\ appended' = Append(appended, [file |-> Get(fd),
                                         name |-> rt.writerCount, q |-> q])
        /\ opens' = IF rt.isSetup THEN opens
                    ELSE [opens EXCEPT ![fileName] = opens[fileName] + 1]
        /\ UNCHANGED <<isSetup, requestList, repLog>>

\* a variant of replay that sends a request nothing matches to the wrapped
\* transport
replayCallFallsThrough(req) ==
    LET setup == IF isSetup THEN [list |-> requestList, panic |-> None]
                 ELSE replaySetup
        c == IF NotNil(setup.panic)
             THEN [ret |-> Get(setup.panic), list |-> setup.list]
             ELSE replayCall(req, setup.list)
    IN  /\ isSetup' = TRUE
        /\ requestList' = c.list
        /\ realCalls' = IF c.ret.kind = "panic" THEN realCalls + 1
                        ELSE realCalls
        /\ last' = [op |-> "replay", req |-> Some(req),
                    sent |-> IF c.ret.kind = "panic" THEN Some(req) ELSE None,
                    out |-> None, ret |-> Some(c.ret),
                    after |-> Some(replayAfter(req))]
        /\ repLog' = Append(repLog, [req |-> req, ret |-> c.ret,
                                     nrec |-> Len(recLog), file |-> fileName])
        /\ UNCHANGED <<fs, rt, recLog, appended, opens>>

\* replay(req)
replayCallAction(req) ==
    LET setup == IF isSetup THEN [list |-> requestList, panic |-> None]
                 ELSE replaySetup
        c == IF NotNil(setup.panic)
             THEN [ret |-> Get(setup.panic), list |-> setup.list]
             ELSE replayCall(req, setup.list)
    IN  /\ isSetup' = TRUE
        /\ requestList' = c.list
        /\ last' = [op |-> "replay", req |-> Some(req), sent |-> None,
                    out |-> None, ret |-> Some(c.ret),
                    after |-> Some(replayAfter(req))]
        /\ repLog' = Append(repLog, [req |-> req, ret |-> c.ret,
                                     nrec |-> Len(recLog), file |-> fileName])
        /\ UNCHANGED <<fs, rt, realCalls, recLog, appended, opens>>

\* r.realRoundTripper.RoundTrip(req) in pass-through mode
forwardCall(req, out) ==
    /\ realCalls' = realCalls + 1
    /\ last' = [op |-> "pass", req |-> Some(req), sent |-> Some(req),
                out |-> Some(out),
                ret |-> Some([kind |-> "return", resp |-> out.resp,
                              err |-> out.err]),
                after |-> Some(req)]
    /\ UNCHANGED <<fs, rt, isSetup, requestList, recLog, repLog,
                   appended, opens>>

\* a variant of the dispatch that records whenever it does not replay
dispatchAlwaysRecords(req, out) ==
    /\ calls' = calls + 1
    /\ IF mode[2] /\ ~mode[1] THEN replayCallAction(req)
       ELSE recordCall(req, out)
    /\ UNCHANGED <<flagVars, Obfuscator, fileName, harnessVars>>

\* a variant of the dispatch that keeps the mode of the first call
dispatchCached(req, out) ==
    /\ calls' = calls + 1
    /\ IF last.op = "record" \/ (last.op = "none" /\ mode[1])
       THEN recordCall(req, out)
       ELSE IF last.op = "replay" \/ (last.op = "none" /\ mode[2])
       THEN replayCallAction(req)
       ELSE forwardCall(req, out)
    /\ UNCHANGED <<flagVars, Obfuscator, fileName, harnessVars>>

\* the switch of RoundTrip(req) on mode(); out is what the wrapped transport
\* returns if it is called
dispatch(req, out) ==
    /\ calls' = calls + 1
    /\ IF mode[1] THEN recordCall(req, out)
       ELSE IF mode[2] THEN replayCallAction(req)
       ELSE forwardCall(req, out)
    /\ UNCHANGED <<flagVars, Obfuscator, fileName, harnessVars>>

\* RoundTrip(req), one of at most MaxCalls calls
RoundTrip(req, out) ==
    /\ calls < MaxCalls
    /\ dispatch(req, out)

\* the test sets fileName
SetFileName(f) ==
    /\ f # fileName
    /\ fileName' = f
    /\ UNCHANGED <<flagVars, Obfuscator, fs, rt, isSetup, requestList,
                   calls, realCalls, last, recLog, repLog, appended, opens,
                   harnessVars>>

\* the test sets the four flags
SetFlags(rec, rep, pass, def) ==
    /\ <<rec, rep, pass, def>> # <<record, replay, passThrough, DefaultReplay>>
    /\ record' = rec
    /\ replay' = rep
    /\ passThrough' = pass
    /\ DefaultReplay' = def
    /\ UNCHANGED <<engineVars, harnessVars>>

\* (*roundTripper).CancelRequest(req): c.CancelRequest(req) if the wrapped
\* transport implements httpCancelRequest
CancelRequest ==
    /\ cancelled < MaxCancels
    /\ cancelled' = IF canCancel THEN cancelled + 1 ELSE cancelled
    /\ lastCancel' = Some([mode |-> mode, capable |-> canCancel,
                           forwarded |-> canCancel])
    /\ lastCancel' # lastCancel \/ cancelled' # cancelled
    /\ UNCHANGED <<flagVars, engineVars, matcherVars, obfVars, threadVars,
                   canCancel, readVars>>

\* the test constructs a new roundTripper and uses it from now on
NewRoundTripper ==
    /\ rt # newRoundTripper
    /\ rt' = newRoundTripper
    /\ UNCHANGED <<flagVars, Obfuscator, fileName, fs, isSetup, requestList,
                   calls, realCalls, last, recLog, repLog, appended, opens,
                   harnessVars>>

\* the flag settings of the tests: recording, replaying, pass-through, and
\* replaying by default
TestFlags == {<<TRUE, FALSE, FALSE, FALSE>>, <<FALSE, TRUE, FALSE, FALSE>>,
              <<FALSE, FALSE, FALSE, FALSE>>, <<FALSE, FALSE, FALSE, TRUE>>}

MatcherIdle ==
    /\ mLeft = None /\ mRight = None /\ mPre = None
    /\ mRet = "none" /\ mCalls = 0

ObfIdle ==
    /\ oB = [username |-> "user1", password |-> "pass1"]
    /\ oRR = None /\ oPre = None /\ oCalls = 0

Threads == 1..NumThreads

\* a goroutine that is not inside RoundTrip and has made n calls
IdleThread(n) ==
    [pc |-> "idle", n |-> n, req |-> None, q |-> None, name |-> None,
     list |-> None, ret |-> None]

ThreadsIdle ==
    /\ thr = [t \in Threads |-> IdleThread(0)]
    /\ writerLock = 0 /\ requestLock = 0 /\ onceLock = 0
    /\ loads = 0

\* a wrapped transport that can cancel (*http.Transport), not yet asked to
CancelIdle ==
    /\ canCancel = TRUE /\ cancelled = 0 /\ lastCancel = None

ReadIdle ==
    /\ bw = bodyWriter(<<>>, None) /\ got = <<>> /\ rd = None /\ nReads = 0

HarnessIdle ==
    MatcherIdle /\ ObfIdle /\ ThreadsIdle /\ CancelIdle /\ ReadIdle

Init ==
    /\ \E f \in TestFlags :
          /\ record = f[1] /\ replay = f[2]
          /\ passThrough = f[3] /\ DefaultReplay = f[4]
    /\ Obfuscator \in {None, Some([username |-> "user2", password |-> "pass2"])}
    /\ fileName = "testdata/archive.dvr"
    /\ fs \in {[f \in Files |-> IF f = fileName THEN c ELSE None] :
                 c \in InitialFiles}
    /\ rt = newRoundTripper
    /\ isSetup = FALSE
    /\ requestList = <<>>
    /\ calls = 0 /\ realCalls = 0
    /\ last = NoCall
    /\ recLog = <<>> /\ repLog = <<>>
    /\ appended = <<>> /\ opens = [f \in Files |-> 0]
    /\ HarnessIdle

Next ==
    \/ \E f \in TestFlags : SetFlags(f[1], f[2], f[3], f[4])
    \/ NewRoundTripper
    \/ \E req \in LiveRequests : \E out \in Outcomes : RoundTrip(req, out)

Spec == Init /\ [][Next]_vars

-----------------------------------------------------------------------------
(* The matcher harness: the default matcher applied to bounded arguments,  *)
(* as TestMatcher does.                                                    *)

SchemeVals == {"http", "NOT_GET"}
OpaqueVals == {"opaque", "NOT_OPAQUE"}
HostVals == {"host", "NOT_HOST"}
PathVals == {"path", "NOT_PATH"}
QueryVals == {"raw", "NOT_RAW_QUERY"}
FragmentVals == {"fragment", "NOT_FRAGMENT"}
UserVals == {None, Some(UserPassword("user", "password")), Some(User("user"))}
BodyVals == {<<1, 2>>, <<>>}
HeaderVals == {None, Some(<<>>),
               Some("header1" :> <<"value1", "value2">>),
               Some("header1" :> <<"value1", "value2_XXX">>)}
TrailerVals == {Some("header2" :> <<"value3", "value4">>),
                Some("header2" :> <<"value1", "value2_XXX">>)}

\* the recorded exchange of TestMatcher
TestRight ==
    RequestResponse(
        Some(MkRequest("GET",
            Some(MkURL("http", "opaque", Some(UserPassword("user", "password")),
                       "host", "path", "raw", "fragment")),
            Some("header1" :> <<"value1", "value2">>),
            Some("header2" :> <<"value3", "value4">>),
            None)),
        <<1, 2>>, None, None, <<>>, None, None)

\* a recorded exchange without user-info, headers or body, holding a
\* recorded transport error
OtherRight ==
    RequestResponse(
        Some(MkRequest("POST",
            Some(MkURL("NOT_GET", "NOT_OPAQUE", None, "NOT_HOST", "NOT_PATH",
                       "NOT_RAW_QUERY", "NOT_FRAGMENT")),
            None,
            Some("header2" :> <<"value1", "value2_XXX">>),
            None)),
        <<>>, None, None, <<>>, None, Some("EOF"))

\* &RequestResponse{} and &RequestResponse{Request: &http.Request{}}
EmptyRR == RequestResponse(None, <<>>, None, None, <<>>, None, None)
NoURLRR ==
    RequestResponse(Some(MkRequest("", None, None, None, None)),
                    <<>>, None, None, <<>>, None, None)

HarnessRights == {None, Some(EmptyRR), Some(NoURLRR), Some(TestRight),
                  Some(OtherRight)}
HarnessLefts == {None, Some(EmptyRR), Some(NoURLRR), Some(TestRight)}

\* the live side has a request with a URL: its dimensions can be set
HasURL(x) ==
    /\ NotNil(x)
    /\ NotNil(Get(x).Request)
    /\ NotNil(Get(Get(x).Request).URL)

SetURL(x, url) ==
    Some([Get(x) EXCEPT !.Request =
        Some([Get(Get(x).Request) EXCEPT !.URL = Some(url)])])

URLOf(x) == Get(Get(Get(x).Request).URL)
HeaderOf(x) == Get(Get(x).Request).Header
TrailerOf(x) == Get(Get(x).Request).Trailer
BodyOf(x) == Get(x).RequestBody

\* the live requests that differ from x in the one dimension d
Variants(x, d) ==
    CASE d = "scheme" ->
           {SetURL(x, [URLOf(x) EXCEPT !.Scheme = v]) : v \in SchemeVals}
      [] d = "opaque" ->
           {SetURL(x, [URLOf(x) EXCEPT !.Opaque = v]) : v \in OpaqueVals}
      [] d = "host" ->
           {SetURL(x, [URLOf(x) EXCEPT !.Host = v]) : v \in HostVals}
      [] d = "path" ->
           {SetURL(x, [URLOf(x) EXCEPT !.Path = v]) : v \in PathVals}
      [] d = "query" ->
           {SetURL(x, [URLOf(x) EXCEPT !.RawQuery = v]) : v \in QueryVals}
      [] d = "fragment" ->
           {SetURL(x, [URLOf(x) EXCEPT !.Fragment = v]) : v \in FragmentVals}
      [] d = "user" ->
           {SetURL(x, [URLOf(x) EXCEPT !.User = v]) : v \in UserVals}
      [] d = "body" ->
           {Some([Get(x) EXCEPT !.RequestBody = v]) : v \in BodyVals}
      [] d = "header" ->
           {Some([Get(x) EXCEPT !.Request =
               Some([Get(Get(x).Request) EXCEPT !.Header = v])])
            : v \in HeaderVals}
      [] d = "trailer" ->
           {Some([Get(x) EXCEPT !.Request =
               Some([Get(Get(x).Request) EXCEPT !.Trailer = v])])
            : v \in TrailerVals}

Dimensions == {"scheme", "opaque", "host", "path", "query", "fragment",
               "user", "body", "header", "trailer"}

\* the test changes one field of the live side
ChangeLeft ==
    /\ mCalls < MaxMatcherCalls
    /\ mRet # "panic"
    /\ HasURL(mLeft)
    /\ \E d \in Dimensions : \E x \in Variants(mLeft, d) :
          /\ x # mLeft
          /\ mLeft' = x
    /\ mRet' = "none"
    /\ UNCHANGED <<mRight, mPre, mCalls>>

\* the test calls matcher(left, right); a call that dereferences nil ends
\* the test
MatcherCall ==
    /\ mCalls < MaxMatcherCalls
    /\ mRet # "panic"
    /\ LET m == matcher(mLeft, mRight)
       IN  /\ mRet' = m.ret
           /\ mRight' = m.right
    /\ mPre' = mRight
    /\ mCalls' = mCalls + 1
    /\ UNCHANGED mLeft

EngineIdle ==
    /\ record = FALSE /\ replay = FALSE
    /\ passThrough = FALSE /\ DefaultReplay = FALSE
    /\ Obfuscator = None
    /\ fileName = "testdata/archive.dvr"
    /\ fs = [f \in Files |-> None]
    /\ rt = newRoundTripper
    /\ isSetup = FALSE
    /\ requestList = <<>>
    /\ calls = 0 /\ realCalls = 0
    /\ last = NoCall
    /\ recLog = <<>> /\ repLog = <<>>
    /\ appended = <<>> /\ opens = [f \in Files |-> 0]

MatcherInit ==
    /\ EngineIdle
    /\ ObfIdle
    /\ ThreadsIdle /\ CancelIdle /\ ReadIdle
    /\ mLeft \in HarnessLefts
    /\ mRight \in HarnessRights
    /\ mPre = mRight
    /\ mRet = "none"
    /\ mCalls = 0

MatcherNext ==
    \/ ChangeLeft /\ UNCHANGED <<flagVars, engineVars, obfVars, threadVars,
                                 cancelVars, readVars>>
    \/ MatcherCall /\ UNCHANGED <<flagVars, engineVars, obfVars, threadVars,
                                  cancelVars, readVars>>

MatcherSpec == MatcherInit /\ [][MatcherNext]_vars

-----------------------------------------------------------------------------
(* Sessions: an archive is replayed, then a second archive is recorded at  *)
(* another path and replayed, as TestFullCycle does.                       *)

SessionRequests == {Req201, ReqError}
SessionOutcomes == {Resp201, RespErr}

SessionRoundTrip(req, out) ==
    /\ calls < MaxSessionCalls
    /\ dispatch(req, out)

SessionInit ==
    /\ record = FALSE /\ replay = TRUE
    /\ passThrough = FALSE /\ DefaultReplay = FALSE
    /\ Obfuscator = None
    /\ fileName = "testdata/archive.dvr"
    /\ fs = [f \in Files |->
               IF f = fileName
               THEN Archive(1, <<recordQuery(Req201, Resp201)>>) ELSE None]
    /\ rt = newRoundTripper
    /\ isSetup = FALSE
    /\ requestList = <<>>
    /\ calls = 0 /\ realCalls = 0
    /\ last = NoCall
    /\ recLog = <<>> /\ repLog = <<>>
    /\ appended = <<>> /\ opens = [f \in Files |-> 0]
    /\ HarnessIdle

SessionNext ==
    \/ \E f \in TestFlags : SetFlags(f[1], f[2], f[3], f[4])
    \/ NewRoundTripper
    \/ \E f \in Files : SetFileName(f)
    \/ \E req \in SessionRequests : \E out \in SessionOutcomes :
          SessionRoundTrip(req, out)

SessionSpec == SessionInit /\ [][SessionNext]_vars

-----------------------------------------------------------------------------
(* The obfuscator harness: a basicAuthObfuscator applied to bounded        *)
(* exchanges, as TestObfuscator does.                                      *)

ObfHeaders ==
    {None,
     Some("Authorization" :> <<"test">>),
     Some("Authorization" :> <<"">>),
     Some("Authorization" :> <<"test", "test2">>),
     Some(("Authorization" :> <<"test">>) @@ ("X-Client-Header" :> <<"test">>)),
     Some("X-Client-Header" :> <<"test">>)}

ObfUsers == {None, Some(User("user2")), Some(UserPassword("user2", "pass2"))}

ObfInputs ==
    {RequestResponse(
        Some(MkRequest("GET", Some(ReqURL("/201", u)), h, None, None)),
        <<1>>, None, out.resp, <<>>, None, out.err) :
     h \in ObfHeaders, u \in ObfUsers, out \in {Resp201, RespErr}}

\* b.Obfuscator(rr)
ObfuscatorCall ==
    /\ oCalls < MaxObfCalls
    /\ oRR' = Some(basicAuthObfuscator(oB, Get(oRR)))
    /\ oPre' = Some([rr |-> Get(oRR), b |-> oB])
    /\ oCalls' = oCalls + 1
    /\ UNCHANGED oB

\* b.password = ""
ClearPassword ==
    /\ oB.password # ""
    /\ oB' = [oB EXCEPT !.password = ""]
    /\ UNCHANGED <<oRR, oPre, oCalls>>

ObfInit ==
    /\ EngineIdle
    /\ MatcherIdle
    /\ ThreadsIdle /\ CancelIdle /\ ReadIdle
    /\ oB = [username |-> "user1", password |-> "pass1"]
    /\ oRR \in {Some(rr) : rr \in ObfInputs}
    /\ oPre = None
    /\ oCalls = 0

ObfNext ==
    \/ ObfuscatorCall
         /\ UNCHANGED <<flagVars, engineVars, matcherVars, threadVars,
                        cancelVars, readVars>>
    \/ ClearPassword
         /\ UNCHANGED <<flagVars, engineVars, matcherVars, threadVars,
                        cancelVars, readVars>>

ObfSpec == ObfInit /\ [][ObfNext]_vars

-----------------------------------------------------------------------------
(* The flag harness: every setting of the four flags, with calls on one    *)
(* request, as TestIsMode and the TestIs... tests do.                      *)

ModeInit ==
    /\ record \in BOOLEAN /\ replay \in BOOLEAN
    /\ passThrough \in BOOLEAN /\ DefaultReplay \in BOOLEAN
    /\ Obfuscator = None
    /\ fileName = "testdata/archive.dvr"
    /\ fs = [f \in Files |-> Archive(1, <<recordQuery(Req201, Resp201)>>)]
    /\ rt = newRoundTripper
    /\ isSetup = FALSE
    /\ requestList = <<>>
    /\ calls = 0 /\ realCalls = 0
    /\ last = NoCall
    /\ recLog = <<>> /\ repLog = <<>>
    /\ appended = <<>> /\ opens = [f \in Files |-> 0]
    /\ MatcherIdle /\ ObfIdle /\ ThreadsIdle /\ ReadIdle
    /\ canCancel \in BOOLEAN
    /\ cancelled = 0
    /\ lastCancel = None

ModeNext ==
    \/ \E rec, rep, pass, def \in BOOLEAN : SetFlags(rec, rep, pass, def)
    \/ RoundTrip(Req201, Resp201)
    \/ CancelRequest

ModeSpec == ModeInit /\ [][ModeNext]_vars

-----------------------------------------------------------------------------
(* Goroutines.  Several goroutines call RoundTrip on one roundTripper; a   *)
(* call is a sequence of steps, and the steps of different goroutines      *)
(* interleave.  The flags do not change while the goroutines run.          *)

ThreadRequests == {Req201, ReqError}
ThreadOutcomes == {Resp201, RespErr}

\* a variant of Lock that does not wait for the holder
TryLockAnyway(l) == TRUE

\* sync.Mutex.Lock on a mutex held by l returns only when it is free
TryLock(l) == l = 0

\* a variant of Do that lets a caller through while another runs f
onceDoNoWait(done, l) ==
    IF done \/ l # 0 THEN "done" ELSE "run"

\* sync.Once.Do for a Once that is done or not, with its mutex held by l:
\* return at once, run f, or wait for the goroutine that runs f
onceDo(done, l) ==
    IF done THEN "done"
    ELSE IF l = 0 THEN "run"
    ELSE "wait"

\* goroutine t enters RoundTrip(req)
Call(t, req) ==
    /\ thr[t].pc = "idle"
    /\ thr[t].n < MaxThreadCalls
    /\ thr' = [thr EXCEPT ![t] =
                 [IdleThread(thr[t].n + 1) EXCEPT
                     !.pc = IF mode[1] THEN "recordSetup"
                            ELSE IF mode[2] THEN "replayDo"
                            ELSE "forward",
                     !.req = Some(req)]]
    /\ calls' = calls + 1
    /\ UNCHANGED <<fs, rt, isSetup, requestList, realCalls, appended, opens,
                   writerLock, requestLock, onceLock, loads>>

\* pass-through: r.realRoundTripper.RoundTrip(req)
Forward(t, out) ==
    /\ thr[t].pc = "forward"
    /\ thr' = [thr EXCEPT ![t].pc = "idle",
                          ![t].ret = Some([kind |-> "return", resp |-> out.resp,
                                           err |-> out.err])]
    /\ realCalls' = realCalls + 1
    /\ UNCHANGED <<fs, rt, isSetup, requestList, calls, appended, opens,
                   writerLock, requestLock, onceLock, loads>>

\* record: r.isSetup.Do(r.recordSetup); recordSetup runs inside the Once,
\* where no other goroutine of this roundTripper can pass
RecordSetup(t) ==
    /\ thr[t].pc = "recordSetup"
    /\ IF rt.isSetup
       THEN UNCHANGED <<fs, rt, opens>>
       ELSE /\ fs' = [fs EXCEPT ![fileName] = Some(<<>>)]
            /\ rt' = [rt EXCEPT !.isSetup = TRUE, !.fd = Some(fileName)]
            /\ opens' = [opens EXCEPT ![fileName] = opens[fileName] + 1]
    /\ thr' = [thr EXCEPT ![t].pc = "recordTransport"]
    /\ UNCHANGED <<isSetup, requestList, calls, realCalls, appended,
                   writerLock, requestLock, onceLock, loads>>

\* record: the bodies are drained, the wrapped transport is called, and the
\* exchange is encoded (and obfuscated)
RecordTransport(t, out) ==
    /\ thr[t].pc = "recordTransport"
    /\ thr' = [thr EXCEPT
                 ![t].pc = "recordLock",
                 ![t].q = Some(obfuscate(recordQuery(Get(thr[t].req), out))),
                 ![t].ret = Some(recordResult(out))]
    /\ realCalls' = realCalls + 1
    /\ UNCHANGED <<fs, rt, isSetup, requestList, calls, appended, opens,
                   writerLock, requestLock, onceLock, loads>>

\* record: r.writerLock.Lock()
RecordLock(t) ==
    /\ thr[t].pc = "recordLock"
    /\ TryLock(writerLock)
    /\ writerLock' = t
    /\ thr' = [thr EXCEPT ![t].pc = "recordName"]
    /\ UNCHANGED <<fs, rt, isSetup, requestList, calls, realCalls, appended,
                   opens, requestLock, onceLock, loads>>

\* record: header := &tar.Header{Name: fmt.Sprintf("%d", r.writerCount), ...}
RecordName(t) ==
    /\ thr[t].pc = "recordName"
    /\ thr' = [thr EXCEPT ![t].pc = "recordHeader",
                          ![t].name = Some(rt.writerCount)]
    /\ UNCHANGED <<fs, rt, isSetup, requestList, calls, realCalls, appended,
                   opens, writerLock, requestLock, onceLock, loads>>

\* a variant of record that holds writerLock only until the header is
\* written
RecordHeaderUnlocks(t) ==
    /\ thr[t].pc = "recordHeader"
    /\ rt' = [rt EXCEPT !.writerCount = rt.writerCount + 1]
    /\ fs' = [fs EXCEPT ![Get(rt.fd)] =
                Some(Append(Get(fs[Get(rt.fd)]),
                            HdrTok(Get(thr[t].name), gobLen(Get(thr[t].q)))))]
    /\ thr' = [thr EXCEPT ![t].pc = "recordWrite"]
    /\ writerLock' = 0
    /\ UNCHANGED <<isSetup, requestList, calls, realCalls, appended, opens,
                   requestLock, onceLock, loads>>

\* record: r.writerCount = r.writerCount + 1; r.writer.WriteHeader(header)
RecordHeader(t) ==
    /\ thr[t].pc = "recordHeader"
    /\ rt' = [rt EXCEPT !.writerCount = rt.writerCount + 1]
    /\ fs' = [fs EXCEPT ![Get(rt.fd)] =
                Some(Append(Get(fs[Get(rt.fd)]),
                            HdrTok(Get(thr[t].name), gobLen(Get(thr[t].q)))))]
    /\ thr' = [thr EXCEPT ![t].pc = "recordWrite"]
    /\ UNCHANGED <<isSetup, requestList, calls, realCalls, appended, opens,
                   writerLock, requestLock, onceLock, loads>>

\* record: io.Copy(r.writer, buffer)
RecordWrite(t) ==
    /\ thr[t].pc = "recordWrite"
    /\ fs' = [fs EXCEPT ![Get(rt.fd)] =
                Some(Append(Get(fs[Get(rt.fd)]), DataTok(Get(thr[t].q))))]
    /\ thr' = [thr EXCEPT ![t].pc = "recordSync"]
    /\ UNCHANGED <<rt, isSetup, requestList, calls, realCalls, appended, opens,
                   writerLock, requestLock, onceLock, loads>>

\* record: r.writer.Flush(); r.fd.Sync(); return resp, realErr, with the
\* deferred r.writerLock.Unlock()
RecordSync(t) ==
    /\ thr[t].pc = "recordSync"
    /\ appended' = Append(appended, [file |-> Get(rt.fd),
                                     name |-> Get(thr[t].name),
                                     q |-> Get(thr[t].q)])
    /\ writerLock' = IF writerLock = t THEN 0 ELSE writerLock
    /\ thr' = [thr EXCEPT ![t].pc = "idle"]
    /\ UNCHANGED <<fs, rt, isSetup, requestList, calls, realCalls, opens,
                   requestLock, onceLock, loads>>

\* replay: isSetup.Do(r.replaySetup), up to the start of replaySetup
ReplayDo(t) ==
    /\ thr[t].pc = "replayDo"
    /\ onceDo(isSetup, onceLock) # "wait"
    /\ IF onceDo(isSetup, onceLock) = "run"
       THEN /\ onceLock' = t
            /\ thr' = [thr EXCEPT ![t].pc = "replaySetup"]
       ELSE /\ thr' = [thr EXCEPT ![t].pc = "replayLock"]
            /\ UNCHANGED onceLock
    /\ UNCHANGED <<fs, rt, isSetup, requestList, calls, realCalls, appended,
                   opens, writerLock, requestLock, loads>>

\* replay: replaySetup runs to its end or to its panic; the Once is done
\* either way, and its mutex is released
ReplaySetup(t) ==
    /\ thr[t].pc = "replaySetup"
    /\ LET setup == replaySetup
       IN  /\ requestList' = setup.list
           /\ thr' = [thr EXCEPT
                        ![t].pc = IF NotNil(setup.panic) THEN "idle"
                                  ELSE "replayLock",
                        ![t].ret = setup.panic]
    /\ isSetup' = TRUE
    /\ onceLock' = 0
    /\ loads' = loads + 1
    /\ UNCHANGED <<fs, rt, calls, realCalls, appended, opens, writerLock,
                   requestLock>>

\* a variant of replay that scans without taking requestLock
ReplayLockSkipped(t) ==
    /\ thr[t].pc = "replayLock"
    /\ thr' = [thr EXCEPT ![t].pc = "replayScan"]
    /\ UNCHANGED <<fs, rt, isSetup, requestList, calls, realCalls, appended,
                   opens, writerLock, requestLock, onceLock, loads>>

\* replay: requestLock.Lock()
ReplayLock(t) ==
    /\ thr[t].pc = "replayLock"
    /\ TryLock(requestLock)
    /\ requestLock' = t
    /\ thr' = [thr EXCEPT ![t].pc = "replayScan"]
    /\ UNCHANGED <<fs, rt, isSetup, requestList, calls, realCalls, appended,
                   opens, writerLock, onceLock, loads>>

\* a variant of replay that unlocks requestLock before its return only, so
\* that a panic leaves it locked
ReplayScanNoDefer(t) ==
    /\ thr[t].pc = "replayScan"
    /\ LET c == replayCall(Get(thr[t].req), requestList)
       IN  /\ requestList' = c.list
           /\ thr' = [thr EXCEPT ![t].pc = "idle",
                                 ![t].list = Some(requestList),
                                 ![t].ret = Some(c.ret)]
           /\ requestLock' = IF requestLock = t /\ c.ret.kind = "return"
                             THEN 0 ELSE requestLock
    /\ UNCHANGED <<fs, rt, isSetup, calls, realCalls, appended, opens,
                   writerLock, onceLock, loads>>

\* replay: the scan of requestList and the return (or the panic), with the
\* deferred requestLock.Unlock()
ReplayScan(t) ==
    /\ thr[t].pc = "replayScan"
    /\ LET c == replayCall(Get(thr[t].req), requestList)
       IN  /\ requestList' = c.list
           /\ thr' = [thr EXCEPT ![t].pc = "idle",
                                 ![t].list = Some(requestList),
                                 ![t].ret = Some(c.ret)]
    /\ requestLock' = IF requestLock = t THEN 0 ELSE requestLock
    /\ UNCHANGED <<fs, rt, isSetup, calls, realCalls, appended, opens,
                   writerLock, onceLock, loads>>

ThreadInit ==
    /\ \E f \in TestFlags :
          /\ record = f[1] /\ replay = f[2]
          /\ passThrough = f[3] /\ DefaultReplay = f[4]
    /\ Obfuscator = None
    /\ fileName = "testdata/archive.dvr"
    /\ fs \in {[f \in Files |-> IF f = fileName THEN c ELSE None] :
                 c \in {None, Archive(1, <<recordQuery(Req201, Resp201)>>),
                        Archive(1, <<recordQuery(Req201, Resp201),
                                     recordQuery(ReqError, RespErr)>>),
                        Truncated}}
    /\ rt = newRoundTripper
    /\ isSetup = FALSE
    /\ requestList = <<>>
    /\ calls = 0 /\ realCalls = 0
    /\ last = NoCall
    /\ recLog = <<>> /\ repLog = <<>>
    /\ appended = <<>> /\ opens = [f \in Files |-> 0]
    /\ HarnessIdle

\* the steps of a call that has begun
Proceed(t) ==
    \/ \E out \in ThreadOutcomes : Forward(t, out)
    \/ RecordSetup(t)
    \/ \E out \in ThreadOutcomes : RecordTransport(t, out)
    \/ RecordLock(t)
    \/ RecordName(t)
    \/ RecordHeader(t)
    \/ RecordWrite(t)
    \/ RecordSync(t)
    \/ ReplayDo(t)
    \/ ReplaySetup(t)
    \/ ReplayLock(t)
    \/ ReplayScan(t)

ThreadStep(t) ==
    \/ \E req \in ThreadRequests : Call(t, req)
    \/ Proceed(t)

ThreadFrame ==
    UNCHANGED <<flagVars, Obfuscator, fileName, last, recLog, repLog,
                matcherVars, obfVars, cancelVars, readVars>>

ThreadNext ==
    \E t \in Threads : ThreadStep(t) /\ ThreadFrame

ThreadSpec == ThreadInit /\ [][ThreadNext]_vars

\* the scheduler runs every goroutine that can take a step: a call that has
\* begun goes on whenever it is not waiting for a lock
FairThreadSpec ==
    ThreadSpec /\ \A t \in Threads : WF_vars(Proceed(t) /\ ThreadFrame)

-----------------------------------------------------------------------------
(* Reading a replayed body.  A reader calls Read on one bodyWriter with    *)
(* non-empty buffers of any sizes.                                         *)

ReadBytes == {5, 6}

RECURSIVE SeqsUpTo(_, _)
SeqsUpTo(S, n) ==
    IF n = 0 THEN {<<>>}
    ELSE LET shorter == SeqsUpTo(S, n - 1)
         IN  shorter \cup {Append(q, x) : q \in shorter, x \in S}

ReadData == SeqsUpTo(ReadBytes, MaxBody)
ReadErrs == {None, Some("unexpected EOF")}

\* b.Read(input) with len(input) = n
ReadStep(n) ==
    /\ nReads < MaxReads
    /\ LET r == Read(bw, n)
       IN  /\ bw' = r.b
           /\ got' = got \o r.bytes
           /\ rd' = Some([n |-> r.n, err |-> r.err, bytes |-> r.bytes,
                          at |-> bw.offset])
    /\ nReads' = nReads + 1
    /\ UNCHANGED <<flagVars, engineVars, matcherVars, obfVars, threadVars,
                   cancelVars>>

ReadInit ==
    /\ EngineIdle
    /\ MatcherIdle /\ ObfIdle /\ ThreadsIdle /\ CancelIdle
    /\ \E D \in ReadData, E \in ReadErrs : bw = bodyWriter(D, E)
    /\ got = <<>> /\ rd = None /\ nReads = 0

ReadNext == \E n \in 1..MaxReadBuf : ReadStep(n)

ReadSpec == ReadInit /\ [][ReadNext]_vars

-----------------------------------------------------------------------------
(* Recording requests with bodies.  The caller records requests whose      *)
(* bodies are absent, end cleanly, or fail after some bytes.               *)

BodyErrs == {None, Some("expected")}

BodyRequests ==
    {MkRequest("GET", Some(ReqURL("/201", None)),
               Some("X-Client-Header" :> <<"test">>), None, b) :
     b \in {None} \cup {Some(LiveBody(D, E)) : D \in ReadData, E \in BodyErrs}}

BodyInit ==
    /\ record = TRUE /\ replay = FALSE
    /\ passThrough = FALSE /\ DefaultReplay = FALSE
    /\ Obfuscator = None
    /\ fileName = "testdata/archive.dvr"
    /\ fs = [f \in Files |-> None]
    /\ rt = newRoundTripper
    /\ isSetup = FALSE
    /\ requestList = <<>>
    /\ calls = 0 /\ realCalls = 0
    /\ last = NoCall
    /\ recLog = <<>> /\ repLog = <<>>
    /\ appended = <<>> /\ opens = [f \in Files |-> 0]
    /\ HarnessIdle

BodyNext ==
    \E req \in BodyRequests : \E out \in {Resp201, RespErr} : RoundTrip(req, out)

BodySpec == BodyInit /\ [][BodyNext]_vars

-----------------------------------------------------------------------------
(* Definitions used to state the properties.                               *)

\* the replay calls so far that returned to their caller
Matched == {i \in DOMAIN repLog : repLog[i].ret.kind = "return"}

\* the failures with which the archive load ends
LoadFailures == {"no such file or directory", "EOF", "Unknown version",
                 "gzip: invalid header", "tar: invalid header",
                 "unexpected EOF"}

\* the archive was loaded completely by the first replay call
Loaded ==
    /\ isSetup
    /\ repLog # <<>>
    /\ ~(repLog[1].ret.kind = "panic" /\ repLog[1].ret.msg \in LoadFailures)

\* the exchange the player compares a live request with
SourceOf(req) ==
    RequestResponse(Some(req),
                    IF NotNil(req.Body) THEN Get(req.Body).data ELSE <<>>,
                    None, None, <<>>, None, None)

\* the entries of requestList whose recorded request equals the live one
Equal(req) ==
    {i \in DOMAIN requestList :
        /\ Get(requestList[i].Request).URL = req.URL
        /\ Get(requestList[i].Request).Header = req.Header
        /\ Get(requestList[i].Request).Trailer = req.Trailer
        /\ requestList[i].RequestBody = SourceOf(req).RequestBody}

Least(S) == CHOOSE i \in S : \A j \in S : i <= j

\* what a caller sees of a response: status, headers, and the bytes and
\* terminal error its body yields
Seen(resp) ==
    IF IsNil(resp) THEN None
    ELSE Some([StatusCode |-> Get(resp).StatusCode,
               Header |-> Get(resp).Header,
               Body |-> IF IsNil(Get(resp).Body) THEN None
                        ELSE Some(Observe(Get(Get(resp).Body)))])

-----------------------------------------------------------------------------
(* C1: at-most-once matching in replay.  With N exchanges loaded, at most  *)
(* N replay calls return a match; when one recorded exchange equals the    *)
(* request, a second replay of the same request is a replay-miss.          *)
C1_AtMostOnce ==
    /\ Cardinality(Matched) <= Len(requestList)
    /\ \A i, j \in DOMAIN repLog :
          (/\ i < j
           /\ repLog[i].req = repLog[j].req
           /\ Cardinality(Equal(repLog[i].req)) = 1
           /\ repLog[i].ret.kind = "return")
          => repLog[j].ret = dvrFailure("Matcher didn't match any execeted queries.")

-----------------------------------------------------------------------------
(* C2: round-trip fidelity.  When the requests recorded into the archive   *)
(* (without Obfuscator) are replayed in the same order from that archive,  *)
(* every replay returns the status, headers, body bytes and body-read      *)
(* error that the recording returned, and the archive load does not fail.  *)

\* the archive at fileName is the one the current roundTripper recorded,
\* and the replay calls so far repeat, after the recording, its requests
ReplaysRecording ==
    /\ IsNil(Obfuscator)
    /\ rt.isSetup /\ rt.fd = Some(fileName)
    /\ repLog # <<>>
    /\ Len(repLog) <= Len(recLog)
    /\ \A i \in DOMAIN repLog :
          /\ repLog[i].nrec = Len(recLog)
          /\ repLog[i].req = recLog[i].req

C2_RoundTripFidelity ==
    ReplaysRecording =>
        \A i \in DOMAIN repLog :
            /\ repLog[i].ret.kind = "return"
            /\ Seen(repLog[i].ret.resp) = Seen(recLog[i].ret.resp)

-----------------------------------------------------------------------------
(* C3: a replay-miss is fatal.  A replay call on a loaded archive of which *)
(* no entry matches the request panics with a *dvrFailure.                 *)
C3_ReplayMissFatal ==
    (/\ last.op = "replay"
     /\ Loaded
     /\ Equal(Get(last.req)) = {})
    => /\ Get(last.ret).kind = "panic"
       /\ Get(last.ret).type = "*dvrFailure"

-----------------------------------------------------------------------------
(* C4: replay of a recorded transport error.  A replay call whose request  *)
(* matches an exchange recorded with an error and no response returns no   *)
(* response and that error; a request that matches an exchange with a      *)
(* response is answered whatever response-less entries the archive holds.  *)
(* Stated for the first replay call, when no exchange is consumed yet.     *)
C4_RecordedErrorReplayed ==
    (/\ last.op = "replay"
     /\ Loaded
     /\ Len(repLog) = 1
     /\ Equal(Get(last.req)) # {})
    => LET rr == requestList[Least(Equal(Get(last.req)))]
       IN  IF IsNil(rr.Response) /\ NotNil(rr.Error)
           THEN Get(last.ret) = [kind |-> "return", resp |-> None,
                                 err |-> rr.Error]
           ELSE Get(last.ret).kind = "return"

-----------------------------------------------------------------------------
(* C5: default matcher discrimination.  For a live request and an          *)
(* unconsumed recorded exchange, matcher returns true exactly when scheme, *)
(* opaque, host, path, raw query, fragment, user-info (both absent, or     *)
(* both present with the same string form), request body, headers and      *)
(* trailers are all equal; a difference in one dimension yields false.     *)

\* the dimensions in which the live side x and the recorded side y differ
Differing(x, y) ==
    {d \in Dimensions :
        CASE d = "scheme" -> URLOf(x).Scheme # URLOf(y).Scheme
          [] d = "opaque" -> URLOf(x).Opaque # URLOf(y).Opaque
          [] d = "host" -> URLOf(x).Host # URLOf(y).Host
          [] d = "path" -> URLOf(x).Path # URLOf(y).Path
          [] d = "query" -> URLOf(x).RawQuery # URLOf(y).RawQuery
          [] d = "fragment" -> URLOf(x).Fragment # URLOf(y).Fragment
          [] d = "user" ->
               ~ \/ IsNil(URLOf(x).User) /\ IsNil(URLOf(y).User)
                 \/ /\ NotNil(URLOf(x).User) /\ NotNil(URLOf(y).User)
                    /\ UserString(Get(URLOf(x).User))
                         = UserString(Get(URLOf(y).User))
          [] d = "body" -> BodyOf(x) # BodyOf(y)
          [] d = "header" -> HeaderOf(x) # HeaderOf(y)
          [] d = "trailer" -> TrailerOf(x) # TrailerOf(y)}

\* the last matcher call compared a live request with an unconsumed
\* recorded exchange
ComparedRequests ==
    /\ mRet # "none"
    /\ HasURL(mLeft) /\ HasURL(mPre)
    /\ ~Get(mPre).UserData

C5_MatcherDiscrimination ==
    ComparedRequests =>
        /\ mRet \in {"true", "false"}
        /\ (mRet = "true") <=> (Differing(mLeft, mPre) = {})
        /\ Cardinality(Differing(mLeft, mPre)) = 1 => mRet = "false"

C5_Witness ==
    /\ ComparedRequests
    /\ mRet = "false"
    /\ Differing(mLeft, mPre) = {"fragment"}

-----------------------------------------------------------------------------
(* C6: consumption marking.  The marker of an exchange starts unset; a     *)
(* matcher call that returns true sets it on the exchange it was given;    *)
(* every later call with that exchange as the recorded side returns false, *)
(* whatever the live request is.                                           *)
C6_ConsumptionMarking ==
    /\ (mCalls = 0 /\ NotNil(mRight)) => ~Get(mRight).UserData
    /\ mRet = "true" =>
          /\ ~Get(mPre).UserData
          /\ mRight = Some([Get(mPre) EXCEPT !.UserData = TRUE])
    /\ (mRet # "none" /\ NotNil(mPre) /\ Get(mPre).UserData) =>
          /\ mRet = "false"
          /\ mRight = mPre

C6_Witness ==
    /\ mCalls = 2
    /\ mRet = "false"
    /\ HasURL(mLeft) /\ HasURL(mPre)
    /\ Get(mPre).UserData
    /\ Differing(mLeft, mPre) = {}

-----------------------------------------------------------------------------
(* C7: mode precedence.  mode() is (true,false) if record; else            *)
(* (false,true) if replay; else (false,false) if passThrough; else         *)
(* (false,true) if DefaultReplay; else (false,false).                      *)
C7_ModePrecedence ==
    /\ record => mode = <<TRUE, FALSE>>
    /\ (~record /\ replay) => mode = <<FALSE, TRUE>>
    /\ (~record /\ ~replay /\ passThrough) => mode = <<FALSE, FALSE>>
    /\ (~record /\ ~replay /\ ~passThrough /\ DefaultReplay) =>
          mode = <<FALSE, TRUE>>
    /\ (~record /\ ~replay /\ ~passThrough /\ ~DefaultReplay) =>
          mode = <<FALSE, FALSE>>

C7_Witness ==
    /\ ~record /\ replay /\ passThrough /\ ~DefaultReplay
    /\ mode = <<FALSE, TRUE>>
    /\ calls > 0

-----------------------------------------------------------------------------
(* C8: mode exclusivity.  For every setting of the flags exactly one of    *)
(* IsRecording(), IsReplay(), IsPassingThrough() is true, and mode() is    *)
(* never (true,true).                                                      *)
C8_ModeExclusive ==
    /\ Cardinality({p \in {"rec", "rep", "pass"} :
          CASE p = "rec" -> IsRecording
            [] p = "rep" -> IsReplay
            [] p = "pass" -> IsPassingThrough}) = 1
    /\ mode # <<TRUE, TRUE>>

C8_Witness ==
    /\ record /\ replay /\ passThrough /\ DefaultReplay
    /\ IsRecording /\ ~IsReplay /\ ~IsPassingThrough
    /\ calls > 0

-----------------------------------------------------------------------------
(* C9: pass-through is a pure forward.  A RoundTrip call in pass-through   *)
(* mode calls the wrapped transport once with the caller's request,        *)
(* returns its response and error, and leaves the archive, the recorder    *)
(* and the replay list with its markers unchanged.                         *)
C9_PassThroughPure ==
    [][(calls' = calls + 1 /\ IsPassingThrough) =>
          /\ realCalls' = realCalls + 1
          /\ last'.sent = last'.req
          /\ last'.ret = Some([kind |-> "return",
                               resp |-> Get(last'.out).resp,
                               err |-> Get(last'.out).err])
          /\ UNCHANGED <<fs, rt, isSetup, requestList>>]_vars

C9_Witness ==
    /\ last.op = "pass"
    /\ IsPassingThrough
    /\ isSetup /\ Len(requestList) > 0
    /\ Get(last.out) = RespErr

-----------------------------------------------------------------------------
(* C10: recording is transparent to the caller.  record() returns the      *)
(* response and the error of the wrapped transport, and the body of the    *)
(* returned response yields the bytes and the terminal read error of the   *)
(* live body, with or without an Obfuscator.                               *)
C10_RecordTransparent ==
    last.op = "record" =>
        /\ Get(last.ret).kind = "return"
        /\ Get(last.ret).err = Get(last.out).err
        /\ Seen(Get(last.ret).resp) = Seen(Get(last.out).resp)

\* the exchange appended last to the file the recorder writes
LastWritten == Get(fs[Get(rt.fd)])[Len(Get(fs[Get(rt.fd)]))].q

C10_Witness ==
    /\ last.op = "record"
    /\ NotNil(Obfuscator)
    /\ Get(last.req) = ReqAuth
    /\ Get(last.out) = RespBody
    /\ Get(LastWritten.Request.URL).User = Some(UserPassword("user2", "pass2"))
    /\ LastWritten.Request.Header = Some("Authorization" :> <<"Basic dXNlcjI6cGFzczI=">>)

-----------------------------------------------------------------------------
(* C11: obfuscation isolation.  In Recording mode with an Obfuscator, the  *)
(* request object of the caller keeps its method, URL (user-info           *)
(* included), headers and trailers, and the response returned is the       *)
(* response of the transport; the credentials set by the hook are found    *)
(* only in the exchange appended to the archive.                           *)
C11_ObfuscationIsolation ==
    (last.op = "record" /\ rt.isSetup /\ NotNil(Obfuscator)) =>
        LET req == Get(last.req)
            after == Get(last.after)
            b == Get(Obfuscator)
        IN  /\ after.Method = req.Method
            /\ after.URL = req.URL
            /\ after.Header = req.Header
            /\ after.Trailer = req.Trailer
            /\ Seen(Get(last.ret).resp) = Seen(Get(last.out).resp)
            /\ NotNil(Get(req.URL).User) =>
                  Get(LastWritten.Request.URL).User
                      = Some(UserPassword(b.username, b.password))
            /\ HeaderGet(req.Header, "Authorization") # "" =>
                  HeaderGet(LastWritten.Request.Header, "Authorization")
                      = "Basic " \o Base64(b.username \o ":" \o b.password)

C11_Witness ==
    /\ last.op = "record"
    /\ rt.isSetup
    /\ NotNil(Obfuscator)
    /\ Get(last.req) = ReqAuth
    /\ Get(Get(last.after).URL).User = Some(UserPassword("user1", "pass1"))
    /\ Get(last.after).Header = Some("Authorization" :> <<"Basic dXNlcjE6cGFzczE=">>)
    /\ Get(LastWritten.Request.URL).User = Some(UserPassword("user2", "pass2"))
    /\ Get(last.out) = Resp201

-----------------------------------------------------------------------------
(* C12: obfuscated credentials at replay.  After recording a request that  *)
(* carries the credentials user1:pass1 while BasicAuthObfuscator(user2,    *)
(* pass2) is configured, the first replay of the otherwise identical       *)
(* request carrying user2:pass2 returns the recorded result, and the first *)
(* replay of the request carrying user1:pass1 does not.                    *)

\* the first replay call follows a recording, made under the Obfuscator, of
\* ReqAuth answered by the transport with a response
ReplaysObfuscated ==
    /\ NotNil(Obfuscator)
    /\ repLog # <<>>
    /\ repLog[1].nrec = Len(recLog)
    /\ \E k \in DOMAIN recLog :
          recLog[k].req = ReqAuth /\ NotNil(recLog[k].ret.resp)
    /\ \A k \in DOMAIN recLog : recLog[k].req \in {ReqAuth, ReqAuth2}

C12_ObfuscatedReplay ==
    ReplaysObfuscated =>
        /\ repLog[1].req = ReqAuth2 => repLog[1].ret.kind = "return"
        /\ (repLog[1].req = ReqAuth
              /\ \A k \in DOMAIN recLog : recLog[k].req = ReqAuth)
           => repLog[1].ret.kind # "return"

-----------------------------------------------------------------------------
(* C14: BasicAuthObfuscator.  The Authorization header is replaced by the  *)
(* Basic value of the replacement credentials exactly when the request had *)
(* a non-empty Authorization header (Header.Get); the URL user-info is     *)
(* replaced by the replacement credentials, the username alone when the    *)
(* replacement password is empty, exactly when user-info was present;      *)
(* nothing else of the exchange changes.                                   *)
C14_BasicAuthObfuscator ==
    NotNil(oPre) =>
        LET b == Get(oPre).b
            pre == Get(Get(oPre).rr.Request)
            post == Get(Get(oRR).Request)
            value == "Basic " \o Base64(b.username \o ":" \o b.password)
            others(h) == IF IsNil(h) THEN {}
                         ELSE DOMAIN Get(h) \ {"Authorization"}
        IN  /\ IF HeaderGet(pre.Header, "Authorization") # ""
               THEN /\ Get(post.Header)["Authorization"] = <<value>>
                    /\ others(post.Header) = others(pre.Header)
                    /\ \A k \in others(pre.Header) :
                          Get(post.Header)[k] = Get(pre.Header)[k]
               ELSE post.Header = pre.Header
            /\ IF NotNil(Get(pre.URL).User)
               THEN Get(post.URL).User =
                       IF b.password = "" THEN Some(User(b.username))
                       ELSE Some(UserPassword(b.username, b.password))
               ELSE IsNil(Get(post.URL).User)
            /\ [Get(post.URL) EXCEPT !.User = Get(pre.URL).User] = Get(pre.URL)
            /\ [post EXCEPT !.Header = pre.Header, !.URL = pre.URL] = pre
            /\ [Get(oRR) EXCEPT !.Request = Get(oPre).rr.Request] = Get(oPre).rr

C14_Witness ==
    /\ NotNil(oPre)
    /\ Get(oPre).b.password = ""
    /\ HeaderGet(Get(Get(oPre).rr.Request).Header, "Authorization") = "test"
    /\ IsNil(Get(Get(Get(oPre).rr.Request).URL).User)
    /\ HeaderGet(Get(Get(oRR).Request).Header, "Authorization") = "Basic dXNlcjE6"
    /\ "X-Client-Header" \in DOMAIN Get(Get(Get(oRR).Request).Header)
    /\ IsNil(Get(Get(Get(oRR).Request).URL).User)

-----------------------------------------------------------------------------
(* C13: independent replay sessions.  After the archive at one path has    *)
(* been loaded and replayed, a second archive is recorded at another path; *)
(* a replay through a newly constructed roundTripper of a request recorded *)
(* only in the second archive returns its recorded result.                 *)

\* the last call replays, through a new roundTripper, a request recorded
\* with a response at the current path after the archive at another path
\* was loaded and replayed
SecondSession ==
    /\ last.op = "replay"
    /\ rt = newRoundTripper
    /\ Len(repLog) >= 2
    /\ repLog[1].nrec = 0
    /\ repLog[1].file # fileName
    /\ repLog[1].ret.kind = "return"
    /\ repLog[1].req # Get(last.req)
    /\ recLog # <<>>
    /\ \A k \in DOMAIN recLog : recLog[k].file = fileName
    /\ \E k \in DOMAIN recLog :
          recLog[k].req = Get(last.req) /\ NotNil(recLog[k].ret.resp)

C13_IndependentSessions ==
    SecondSession => Get(last.ret).kind = "return"

-----------------------------------------------------------------------------
(* C15: crash-consistent persistence.  Every record whose append (write,   *)
(* flush, sync) has completed, which is the case when its record() call    *)
(* has returned, is found in the durable content of its file.              *)

\* record() returns after r.fd.Sync(): between calls the durable content of
\* a file is its content
Durable(f) == fs[f]

C15_CrashConsistent ==
    \A i \in DOMAIN appended :
        LET e == appended[i]
            file == Durable(e.file)
        IN  /\ NotNil(file)
            /\ \E j \in 1..(Len(Get(file)) - 1) :
                  /\ Get(file)[j] = HdrTok(e.name, gobLen(e.q))
                  /\ Get(file)[j + 1] = DataTok(e.q)

-----------------------------------------------------------------------------
(* C18: recorder setup once per process.  The archive at a path is opened  *)
(* with truncation by the first Recording call only: no path is opened by  *)
(* recordSetup a second time.                                              *)
C18_RecorderSetupOnce ==
    \A f \in Files : opens[f] <= 1

-----------------------------------------------------------------------------
(* C19: uniform fatal failure type.  Every fatal condition of a replay     *)
(* call (the archive cannot be opened or read, its version is unsupported, *)
(* it cannot be decoded, no exchange matches) is a panic whose value is a  *)
(* *dvrFailure.                                                            *)

\* the conditions the engine reports as fatal
FatalConditions ==
    LoadFailures \cup {"Matcher didn't match any execeted queries."}

C19_UniformFailure ==
    \A i \in DOMAIN repLog :
        (repLog[i].ret.kind = "panic" /\ repLog[i].ret.msg \in FatalConditions)
        => repLog[i].ret.type = "*dvrFailure"

-----------------------------------------------------------------------------
(* C20: an unsupported archive is never replayed from.  If the load of the *)
(* archive by the first Replaying call failed, that call ends in a panic   *)
(* and no Replaying call of the process returns a result.                  *)

C20_NoReplayAfterFailedLoad ==
    (repLog # <<>> /\ repLog[1].ret.kind = "panic"
       /\ repLog[1].ret.msg \in LoadFailures)
    => \A i \in DOMAIN repLog : repLog[i].ret.kind = "panic"

-----------------------------------------------------------------------------
(* C16: record sequence numbers under concurrent recording.  For every     *)
(* interleaving of the record() calls of several goroutines on one         *)
(* roundTripper, the names of the entries of the archive, in file order,   *)
(* are 0, 1, 2, ... without duplicate or gap, and writerCount is the       *)
(* number of entry headers written.                                        *)

\* the header blocks of the file the recorder writes, in file order
HeadersWritten ==
    SelectSeq(Get(fs[Get(rt.fd)]), LAMBDA tok : tok.t = "hdr")

C16_SequenceNumbers ==
    rt.isSetup =>
        /\ \A i \in DOMAIN HeadersWritten : HeadersWritten[i].Name = i - 1
        /\ rt.writerCount = Len(HeadersWritten)

C16_Witness ==
    /\ rt.isSetup
    /\ Len(HeadersWritten) = 2
    /\ thr[1].pc = "recordLock"
    /\ thr[2].pc = "recordWrite"
    /\ writerLock = 2
    /\ thr[2].name = Some(1)
    /\ appended # <<>> /\ appended[1].name = 0

-----------------------------------------------------------------------------
(* C17: single archive load under racing first callers.  replaySetup runs  *)
(* at most once in the process; no replay call takes requestLock or scans  *)
(* requestList before the load has ended; all calls scan the same list.    *)
C17_SingleLoad ==
    /\ loads <= 1
    /\ \A t \in Threads :
          thr[t].pc \in {"replayLock", "replayScan"} =>
              /\ isSetup
              /\ loads = 1
              /\ \A u \in Threads : thr[u].pc # "replaySetup"
    /\ \A t, u \in Threads :
          (NotNil(thr[t].list) /\ NotNil(thr[u].list)) =>
              thr[t].list = thr[u].list

C17_Witness ==
    /\ loads = 1
    /\ thr[1].pc = "replayScan"
    /\ thr[2].pc = "replayLock"
    /\ thr[1].n = 1 /\ thr[2].n = 1
    /\ Len(requestList) = 1

-----------------------------------------------------------------------------
(* C21: cancellation dispatch.  CancelRequest calls the CancelRequest of   *)
(* the wrapped transport exactly when the mode is Pass-through or          *)
(* Recording and the wrapped transport has that method: never in Replaying *)
(* mode, and never without the method.                                     *)
C21_CancelDispatch ==
    NotNil(lastCancel) =>
        (Get(lastCancel).forwarded
            <=> (Get(lastCancel).capable /\ ~Get(lastCancel).mode[2]))

-----------------------------------------------------------------------------
(* C22: no network in replay.  A RoundTrip call made while the mode is     *)
(* Replaying does not call the RoundTrip of the wrapped transport, whether *)
(* the request matches a recorded exchange or not.                         *)
C22_NoNetworkInReplay ==
    [][(calls' = calls + 1 /\ IsReplay) =>
          /\ realCalls' = realCalls
          /\ last'.op = "replay"
          /\ IsNil(last'.sent)]_vars

C22_Witness ==
    /\ IsReplay
    /\ calls = 2 /\ realCalls = 0
    /\ Len(repLog) = 2
    /\ repLog[1].ret.kind = "return"
    /\ repLog[2].ret = dvrFailure("Matcher didn't match any execeted queries.")

-----------------------------------------------------------------------------
(* C23: transport errors are data in Recording mode.  When the wrapped     *)
(* transport returns an error, record() returns that error and no          *)
(* response without a panic, and appends exactly one record, which holds   *)
(* the error and no response.                                              *)
C23_TransportErrorRecorded ==
    [][(calls' = calls + 1 /\ IsRecording /\ NotNil(Get(last'.out).err)) =>
          LET file == Get(fs'[Get(rt'.fd)])
              e == appended'[Len(appended')]
          IN  /\ last'.ret = Some([kind |-> "return", resp |-> None,
                                   err |-> Get(last'.out).err])
              /\ Len(appended') = Len(appended) + 1
              /\ e.q.Error = Get(last'.out).err
              /\ IsNil(e.q.Response)
              /\ Len(file) = 2 * rt'.writerCount
              /\ rt'.writerCount = rt.writerCount + 1
              /\ file[Len(file) - 1] = HdrTok(e.name, gobLen(e.q))
              /\ file[Len(file)] = DataTok(e.q)]_vars

C23_Witness ==
    /\ last.op = "record"
    /\ Get(last.out) = RespErr
    /\ Get(last.ret).err = Some("EOF")
    /\ rt.writerCount = 2
    /\ Len(appended) = 2
    /\ appended[2].q.Error = Some("EOF")
    /\ NotNil(appended[1].q.Response)

-----------------------------------------------------------------------------
(* C24: first match in recorded order.  When the archive holds k exchanges *)
(* whose requests equal the live request, the i-th replay of that request  *)
(* (i <= k) returns the response or error of the i-th of them, in recorded *)
(* order.                                                                  *)

\* the i-th smallest element of a set of numbers
Nth(S, i) == CHOOSE x \in S : Cardinality({y \in S : y < x}) = i - 1

C24_FirstMatchInOrder ==
    \A i \in DOMAIN repLog :
        (/\ Loaded
         /\ \A k \in DOMAIN requestList : NotNil(requestList[k].Response)
         /\ \A j \in 1..i : repLog[j].req = repLog[i].req
         /\ i <= Cardinality(Equal(repLog[i].req)))
        => LET rr == requestList[Nth(Equal(repLog[i].req), i)]
           IN  /\ repLog[i].ret.kind = "return"
               /\ repLog[i].ret.err = rr.Error
               /\ Seen(repLog[i].ret.resp) = Seen(replayResult(rr).resp)

-----------------------------------------------------------------------------
(* C25: the archive written by the Recorder is in the format the Player    *)
(* accepts.  Once recordSetup has run, the file starts with the 4-byte     *)
(* big-endian version word 1, followed by the compressed stream.           *)
C25_ArchiveFormat ==
    rt.isSetup =>
        LET file == Get(fs[Get(rt.fd)])
        IN  /\ Len(file) >= 2
            /\ Word(file[1]) = 1
            /\ file[2].t = "gzip"

-----------------------------------------------------------------------------
(* C29: the mode is resolved on every call.  Each RoundTrip goes to the    *)
(* Recorder, the Player or the wrapped transport according to the values   *)
(* the four flags have when it is called, whatever they were at earlier    *)
(* calls.                                                                  *)
C29_ModeResolvedPerCall ==
    [][calls' = calls + 1 =>
          last'.op = IF record THEN "record"
                     ELSE IF replay THEN "replay"
                     ELSE IF passThrough THEN "pass"
                     ELSE IF DefaultReplay THEN "replay"
                     ELSE "pass"]_vars

C29_Witness ==
    /\ calls = 2
    /\ last.op = "replay"
    /\ rt.isSetup
    /\ realCalls = 1
    /\ ~record /\ ~replay /\ ~passThrough /\ DefaultReplay

-----------------------------------------------------------------------------
(* C26: archive framing is never interleaved.  For every interleaving of   *)
(* concurrent record() calls, each record header of the archive is         *)
(* followed at once by the payload of the same call, of the length the     *)
(* header declares; a header without its payload is the last block of the  *)
(* file and belongs to the call that holds writerLock.                     *)

\* the goroutines that have written their header and not yet returned
Writing == {t \in Threads : thr[t].pc \in {"recordWrite", "recordSync"}}

C26_FramingNotInterleaved ==
    rt.isSetup =>
        LET file == Get(fs[Get(rt.fd)])
            n == Len(appended)
        IN  /\ \A i \in DOMAIN file :
                  file[i].t = IF i % 2 = 1 THEN "hdr" ELSE "data"
            /\ \A k \in DOMAIN appended :
                  /\ 2 * k <= Len(file)
                  /\ file[2 * k - 1] =
                        HdrTok(appended[k].name, gobLen(appended[k].q))
                  /\ file[2 * k] = DataTok(appended[k].q)
            /\ Writing = {} => Len(file) = 2 * n
            /\ \A t \in Writing :
                  /\ writerLock = t
                  /\ Len(file) = IF thr[t].pc = "recordWrite" THEN 2 * n + 1
                                 ELSE 2 * n + 2
                  /\ file[2 * n + 1] =
                        HdrTok(Get(thr[t].name), gobLen(Get(thr[t].q)))
                  /\ thr[t].pc = "recordSync" =>
                        file[2 * n + 2] = DataTok(Get(thr[t].q))

C26_Witness ==
    /\ rt.isSetup
    /\ Len(appended) = 1
    /\ Len(Get(fs[Get(rt.fd)])) = 4
    /\ thr[2].pc = "recordSync" /\ writerLock = 2
    /\ thr[1].pc = "recordLock" /\ thr[1].n = 1
    /\ thr[1].q # thr[2].q

-----------------------------------------------------------------------------
(* C27: matching is mutually exclusive.  At most one replay() call is      *)
(* between taking requestLock and the end of its scan and match decision,  *)
(* and that call holds requestLock.                                        *)

\* the goroutines between requestLock.Lock() and the end of the scan
Scanning == {t \in Threads : thr[t].pc = "replayScan"}

C27_MatchingExclusive ==
    /\ Cardinality(Scanning) <= 1
    /\ \A t \in Scanning : requestLock = t

C27_Witness ==
    /\ Scanning = {1}
    /\ requestLock = 1
    /\ thr[2].pc = "replayLock"
    /\ thr[2].n = 2 /\ NotNil(thr[1].req) /\ thr[1].n = 2

-----------------------------------------------------------------------------
(* C28: the reader lock is released on every exit of replay().  When no    *)
(* replay() call is scanning, requestLock is free, whether the calls       *)
(* before returned or panicked; a replay() call that waits for requestLock *)
(* eventually takes it.                                                    *)
C28_ReaderLockReleased ==
    /\ [](Scanning = {} => requestLock = 0)
    /\ \A t \in Threads :
          (thr[t].pc = "replayLock") ~> (thr[t].pc = "replayScan")

C28_Witness ==
    /\ thr[1].pc = "idle"
    /\ thr[1].ret =
          Some(dvrFailure("Matcher didn't match any execeted queries."))
    /\ thr[2].pc = "replayScan"
    /\ requestLock = 2

-----------------------------------------------------------------------------
(* C30: replayed body stream.  For every sequence of Read calls with       *)
(* non-empty buffers on a bodyWriter of data D and captured error E, the   *)
(* bytes returned so far are a prefix of D in order, a Read that returns   *)
(* bytes returns a nil error, a Read before the end of D returns bytes,    *)
(* and a Read after all of D was delivered returns 0 bytes with E, or with *)
(* end-of-stream when there is no E; no error comes before all of D.       *)
C30_BodyStream ==
    /\ got = SubSeq(bw.data, 1, bw.offset)
    /\ NotNil(rd) =>
          LET r == Get(rd)
          IN  /\ r.n = Len(r.bytes)
              /\ r.n > 0 => IsNil(r.err)
              /\ r.at < Len(bw.data) => r.n > 0
              /\ r.at >= Len(bw.data) =>
                    /\ r.n = 0
                    /\ r.err = IF IsNil(bw.err) THEN Some("EOF") ELSE bw.err
              /\ NotNil(r.err) => got = bw.data

C30_Witness ==
    /\ Len(bw.data) = 3
    /\ bw.err = Some("unexpected EOF")
    /\ got = bw.data
    /\ nReads = 3
    /\ Get(rd).n = 0
    /\ Get(rd).err = Some("unexpected EOF")

-----------------------------------------------------------------------------
(* C31: request body substitution in Recording.  record() drains the body  *)
(* of the caller's request before it calls the wrapped transport; the body *)
(* the transport receives is unread and yields the same bytes followed by  *)
(* the same read error (or end-of-stream) as the original body, and the    *)
(* exchange stores those bytes and that error.                             *)
C31_RequestBodySubstitution ==
    (last.op = "record" /\ NotNil(Get(last.req).Body)) =>
        LET orig == Observe(Get(Get(last.req).Body))
            sent == Get(Get(last.sent).Body)
            q == appended[Len(appended)].q
        IN  /\ sent.kind = "bodyWriter"
            /\ sent.offset = 0
            /\ Observe(sent) = orig
            /\ q.Request.Body = orig.data
            /\ q.Request.Error =
                  IF orig.err = "EOF" THEN None ELSE Some(orig.err)

C31_Witness ==
    /\ last.op = "record"
    /\ calls = 2
    /\ NotNil(Get(last.req).Body)
    /\ Len(Get(Get(last.req).Body).data) = 3
    /\ Get(Get(last.req).Body).err = Some("expected")
    /\ Observe(Get(Get(last.sent).Body)).err = "expected"
    /\ appended[2].q.Request.Error = Some("expected")

-----------------------------------------------------------------------------
-----------------------------------------------------------------------------
(* C33: the loaded archive is immutable.  Once replaySetup has run, no     *)
(* step changes the length or the order of requestList or the recorded     *)
(* request, response, bodies and errors of an entry; the consumption       *)
(* marker is the only part of an entry a replay() call may change.         *)

\* a list of exchanges without their consumption markers
Unmarked(list) == [i \in DOMAIN list |-> [list[i] EXCEPT !.UserData = FALSE]]

C33_LoadedArchiveImmutable ==
    [][isSetup => Unmarked(requestList') = Unmarked(requestList)]_vars

C33_Witness ==
    /\ isSetup
    /\ Len(requestList) = 2
    /\ requestList = replaySetup.list
    /\ Len(repLog) = 2
    /\ repLog[1].ret.kind = "return"
    /\ repLog[2].ret.kind = "return"

-----------------------------------------------------------------------------
(* C34: the result of the default matcher depends only on the URL, the     *)
(* request body, the headers and the trailers.  A run on exchanges that    *)
(* agree with those of the last call on these and on the consumption       *)
(* marker gives the same result and the same marker, whatever the HTTP     *)
(* methods, the recorded response, the response body and the recorded      *)
(* error are.                                                              *)

\* the exchanges that agree with x on the URL, the request body, the
\* headers, the trailers and the marker
SameMatchedFields(x) ==
    IF IsNil(x) THEN {x}
    ELSE {Some([Get(x) EXCEPT
                  !.Request = IF IsNil(@) THEN @
                              ELSE Some([Get(@) EXCEPT !.Method = m]),
                  !.Response = r, !.ResponseBody = rb, !.Error = e]) :
          m \in {"GET", "POST"}, r \in {None, Resp201.resp},
          rb \in {<<>>, <<5>>}, e \in {None, Some("EOF")}}

C34_MatcherDependsOnRequestOnly ==
    mRet # "none" =>
        \A l \in SameMatchedFields(mLeft), r \in SameMatchedFields(mPre) :
            LET m == matcher(l, r)
            IN  /\ m.ret = mRet
                /\ NotNil(m.right) =>
                      Get(m.right).UserData = Get(mRight).UserData

C34_Witness ==
    /\ mRet = "true"
    /\ Get(Get(mLeft).Request).Method # Get(Get(mPre).Request).Method
    /\ Get(mLeft).Error # Get(mPre).Error

-----------------------------------------------------------------------------
(* C35: a failed match has no effect.  A call of the default matcher that  *)
(* returns false leaves the consumption marker and every other field of    *)
(* the recorded exchange and of the live side as they were, so that a      *)
(* later call with an identical request on an exchange not yet matched     *)
(* returns true, whatever calls failed on it before.                       *)
C35_FailedMatchNoEffect ==
    /\ mRet = "false" => mRight = mPre
    /\ (mCalls >= 2 /\ ComparedRequests /\ Differing(mLeft, mPre) = {})
       => mRet = "true"

C35_Witness ==
    /\ mCalls = 2
    /\ mRet = "true"
    /\ mPre = Some(TestRight)
    /\ mRight = Some([TestRight EXCEPT !.UserData = TRUE])

====
